---- MODULE Spec2Model ----
(***************************************************************************)
(* Verification model of the MCP server repository.                        *)
(*                                                                         *)
(*  Part I   protocol dispatch      src/src/mcp_server/server.py           *)
(*  Part II  LLM router             src/src/mcp_server/llm/router.py       *)
(*                                                                         *)
(* Two specifications share one state: Spec drives the protocol server,    *)
(* SpecRouter drives the LLM router.  Each leaves the other part's         *)
(* variables untouched.                                                    *)
(***************************************************************************)
EXTENDS Integers, Sequences, FiniteSets, TLC

VARIABLES
    \* ---- Part I: MCPServer ----
    serverState,      \* "constructed" | "running" | "stopped"  (start()/stop())
    journal_manager,  \* TRUE when self.journal_manager is not None
    tools_registry,   \* self._tools_registry (set of registered tool names)
    entries_cache,    \* JournalManager._entries_cache (entries in log order)
    lastRequest,      \* the request of the latest handle_request call
    lastOutcome,      \* what the tool handler did in that call
    lastRegistry,     \* the tool registry as that call found it
    response,         \* the value handle_request returned
    raised,           \* the exception handle_request let escape
    handled,          \* number of handle_request calls so far
    \* ---- Part II: LLMRouter ----
    now,                \* the wall clock (datetime.now()), in seconds
    provider_instances, \* keys of LLMRouter.provider_instances
    health_status,      \* LLMRouter.health_status: provider -> ProviderHealth
    rate_limiters,      \* LLMRouter.rate_limiters: provider -> RateLimiter.requests
    routing_rules,      \* LLMRouter.routing_rules
    pc,                 \* where the generate call in progress stands
    gen,                \* locals of that generate call
    sent,               \* providers the call has sent a request to, in order
    replies,            \* what each of those providers answered, in order
    genResult,          \* how the latest finished generate call ended
    selection,          \* the latest select_provider call and its result
    streak,             \* per provider, how many of the latest outcomes recorded on
                        \* its health record are failures in a row (3 stands for 3+)
    retry_config,       \* LLMRouter.retry_config (a RetryConfig)
    lastDelay,          \* the latest RetryConfig.get_delay call and its result
    \* ---- Part IV: conversations ----
    conversation_contexts, \* conversation id -> ConversationContext.messages
    calls,              \* the generate calls in progress, by task
    convStarted,        \* number of generate calls started so far
    completionOrder,    \* the calls that returned a response, in that order
    lastUpdate,         \* the latest _update_context call: history before and after
    \* ---- Part V: generate_stream ----
    spc,                \* where the generate_stream call in progress stands
    sgen,               \* locals of that call
    chunks,             \* the chunks the call has yielded to its consumer, in order
    chunk_attempts,     \* for each chunk handed on from a provider, the attempt it came from
    streamResult,       \* how the latest generate_stream call ended
    \* ---- Part VI: the three rate limiters ----
    research_calls,     \* research RateLimiter.calls
    security_requests,  \* security RateLimiter.requests: identifier -> times
    admitted,           \* per limiter and key, the times of every admitted request
    \* ---- Part VII: the journal's write queue, worker thread and shutdown ----
    log_count,          \* number of log_entry calls so far; entry n is the n-th call
    unwritable,         \* the entries whose write raises (inside _write_entry_sync)
    jqueue,             \* JournalManager._queue: entries, and 0 for the None signal
    stop_event,         \* JournalManager._stop_event
    worker,             \* the worker thread: where it stands and the entry it holds
    written,            \* the journal file: the entries in it, in order, and who wrote each
    error_log,          \* the entries with a "Failed to write journal entry" record
    cpc,                \* where the call of cleanup() stands
    shutdown,           \* what cleanup() found and did: pending entries, join outcome
    \* ---- Part VIII: journal file rotation ----
    rclock,             \* datetime.now() of the rotation handler, in seconds
    files,              \* the journal_*.md files of the directory: name, mtime, size
    current_file,       \* JournalRotationHandler.current_file (a name, or NoFile)
    rotations,          \* number of _create_new_file calls so far
    lastGet,            \* the latest get_current_file call: what it found and did
    \* ---- Part IX: the research engine's cache and batches ----
    rtime,              \* datetime.now() of the research engine, in minutes
    research_cache,     \* ResearchEngine.cache: cache key -> entry
    stats,              \* ResearchEngine.stats
    lastLookup,         \* the latest _get_from_cache call: what it found and did
    lastBatch,          \* the latest research_batch call: its queries and its answer
    \* ---- Part X: containers ----
    tracked,            \* ContainerManager._containers: the names tracked
    runtime,            \* the containers that exist in the container runtime, by name
    lastCreate,         \* the latest create_container call
    lastTests,          \* the latest execute_tests call
    lastCleanup,        \* the latest cleanup_project call
    \* ---- Part XI: specification documents ----
    spec_clock,         \* datetime.now(), in whole seconds
    max_versions,       \* SpecManager.config['max_versions']
    spec_doc,           \* the specification document (one document id)
    backups,            \* the files of backups/<spec_id>: name and modification order
    saves,              \* how many times the document was saved
    \* ---- Part XII: component life cycle ----
    components,         \* each component attribute: "none", "constructed" or "cleaned"
    starts,             \* start() calls made
    lastStart,          \* the latest start() call
    \* ---- Part XIII: path validation ----
    lastValidate,       \* the latest validate_path call
    \* ---- Part XIV: configuration ----
    lastConfig,         \* the latest to_dict / _from_dict round trip
    \* ---- Part XV: command sanitizing ----
    lastSanitize,       \* the latest sanitize_command call
    \* ---- Part XVI: stored specification documents ----
    lastLoad            \* the latest save_spec of a document and load_spec of its file

serverVars == <<serverState, journal_manager, tools_registry, entries_cache,
                lastRequest, lastOutcome, lastRegistry, response, raised, handled>>

routerVars == <<now, provider_instances, health_status, rate_limiters,
                routing_rules, pc, gen, sent, replies, genResult, selection,
                streak>>

retryVars == <<retry_config, lastDelay>>

\* The variables of the parts that follow Part II.
convVars == <<conversation_contexts, calls, convStarted, completionOrder, lastUpdate>>

streamVars == <<spc, sgen, chunks, chunk_attempts, streamResult>>

limiterVars == <<research_calls, security_requests, admitted>>

journalVars == <<log_count, unwritable, jqueue, stop_event, worker, written, error_log,
                 cpc, shutdown>>

rotationVars == <<rclock, files, current_file, rotations, lastGet>>

researchVars == <<rtime, research_cache, stats, lastLookup, lastBatch>>

\* The variables of Parts IX and later.
dockerVars == <<tracked, runtime, lastCreate, lastTests, lastCleanup>>

specsVars == <<spec_clock, max_versions, spec_doc, backups, saves>>

startupVars == <<components, starts, lastStart>>

pathVars == <<lastValidate>>

configVars == <<lastConfig>>

sanitizeVars == <<lastSanitize>>

storedVars == <<lastLoad>>

laterVars == <<researchVars, dockerVars, specsVars, startupVars, pathVars, configVars,
               sanitizeVars, storedVars>>

extVars == <<retryVars, convVars, streamVars, limiterVars, journalVars, rotationVars,
             laterVars>>

\* The variables of Parts I to VIII.
coreVars == <<serverVars, routerVars, retryVars, convVars, streamVars, limiterVars,
              journalVars, rotationVars>>

otherResearchVars == <<coreVars, dockerVars, specsVars, startupVars, pathVars, configVars,
    sanitizeVars, storedVars>>

otherDockerVars == <<coreVars, researchVars, specsVars, startupVars, pathVars, configVars,
    sanitizeVars, storedVars>>

otherSpecsVars == <<coreVars, researchVars, dockerVars, startupVars, pathVars, configVars,
    sanitizeVars, storedVars>>

otherStartupVars == <<coreVars, researchVars, dockerVars, specsVars, pathVars, configVars,
    sanitizeVars, storedVars>>

otherPathVars == <<coreVars, researchVars, dockerVars, specsVars, startupVars, configVars,
    sanitizeVars, storedVars>>

otherConfigVars == <<coreVars, researchVars, dockerVars, specsVars, startupVars, pathVars,
    sanitizeVars, storedVars>>

otherSanitizeVars == <<coreVars, researchVars, dockerVars, specsVars, startupVars, pathVars,
                       configVars, storedVars>>

otherStoredVars == <<coreVars, researchVars, dockerVars, specsVars, startupVars, pathVars,
                     configVars, sanitizeVars>>

vars == <<serverVars, routerVars, extVars>>

(***************************************************************************)
(* Bounds                                                                  *)
(***************************************************************************)
MaxHandled == 3
\* The clock advances in steps of TickStep seconds up to MaxTime.
TickStep == 60
MaxTime == 120
\* record_failure is not called on a record that already counts this many.
MaxFailureCount == 4
\* The router builds each RateLimiter with max_requests=60; the model scales
\* the limit down so that a full window is reachable.
MaxRequestsPerWindow == 1
\* get_delay is asked about the attempts 0..MaxDelayAttempt.
MaxDelayAttempt == 6
\* generate calls with a conversation context started in one behaviour.
MaxConvCalls == 2
\* Content chunks one generate_stream call hands on.
MaxChunks == 2
\* The clock of the rate limiter checks: step and last instant, in seconds.
LimiterStep == 30
MaxLimiterTime == 60
\* max_calls of the research limiter and requests_per_minute of the security
\* limiter, as configured in the checked runs.
ResearchMaxCalls == 2
RequestsPerMinute == 2
\* log_entry calls in one behaviour.
MaxEntries == 3
\* Requests handled by a server with a running journal worker.
MaxJournaled == 2
\* Journal files found from earlier runs, seconds of rotation clock, rotations
\* in one behaviour, and the size in MB one written entry adds to the file.
MaxOldFiles == 11
MaxRotationTime == 3
MaxRotations == 3
EntryMb == 25
\* The clock of the research engine: step and last instant, in minutes; and
\* the research calls of one behaviour.
ResearchStep == 60
MaxResearchTime == 120
MaxResearchCalls == 2
\* Containers that exist at once.
MaxContainers == 2
\* Seconds the specification manager's clock runs, and saves of the document.
MaxSpecTime == 3
MaxSaves == 4
\* start() calls on one server.
MaxStarts == 2
\* Segments of the paths validated.
MaxPathLen == 3

\* Longest command tried, in characters.
MaxCommandLen == 3

\* Latest second of the clock of the stored documents.
MaxStoredTime == 2

(***************************************************************************)
(* Part I.  Protocol server                                                *)
(***************************************************************************)

\* The nine tools of _register_tools.
ToolNames ==
    {"generate_code", "debug_code", "execute_tests", "research_documentation",
     "create_requirements_spec", "create_design_spec", "manage_session",
     "setup_dev_environment", "execute_command"}

\* Methods a caller may put in the envelope.  "<none>" is an envelope with no
\* "method" key (request.get("method") is None).
KnownMethods == {"initialize", "tools/list", "tools/call", "ping", "capabilities"}
OtherMethods == {"invalid_method", "notifications/initialized", "<none>"}
Methods == KnownMethods \cup OtherMethods

\* params.name values: two registered names, one unregistered name, a params
\* dict without "name" (None), and an unhashable name (a JSON array/object).
RequestedNames == {"generate_code", "execute_tests", "nonexistent_tool",
                   "<none>", "<unhashable>"}

\* Shapes of the "params" member: missing (defaults to {}), a dict, or a
\* value without .get (null, array, string, number).
NoName == "<n/a>"

NonDictRequest == [kind |-> "nondict", method |-> "<n/a>", params |-> "<n/a>", name |-> NoName]

DictRequests ==
    [kind : {"dict"}, method : Methods \ {"tools/call"}, params : {"absent"}, name : {NoName}]
    \cup [kind : {"dict"}, method : {"tools/call"}, params : {"absent"}, name : {"<none>"}]
    \cup [kind : {"dict"}, method : {"tools/call", "invalid_method"}, params : {"nondict"}, name : {NoName}]
    \cup [kind : {"dict"}, method : {"tools/call"}, params : {"dict"}, name : RequestedNames]

Requests == {NonDictRequest} \cup DictRequests

\* What the tool handler (_execute_tool and the handler it dispatches to)
\* does once it is called: return a result or raise an exception.
ErrorMessages == {"boom", "'requirements'"}
ToolOutcomes ==
    {[ok |-> TRUE, msg |-> "result"]} \cup [ok : {FALSE}, msg : ErrorMessages]
NoOutcome == [ok |-> TRUE, msg |-> "<not called>"]

NoException == [type |-> "<none>", msg |-> "<none>"]
Exception(type, msg) == [type |-> type, msg |-> msg]

NoResponse ==
    [shape |-> "<none>", hasContent |-> FALSE, isError |-> FALSE,
     hasError |-> FALSE, code |-> 0, text |-> <<>>]

\* {"content": [{"type": "text", "text": text}], "isError": isError}
ToolResponse(text, isError) ==
    [shape |-> "tool", hasContent |-> TRUE, isError |-> isError,
     hasError |-> FALSE, code |-> 0, text |-> text]

\* {"error": {"code": code, "message": text}}
ErrorEnvelope(code, text) ==
    [shape |-> "error", hasContent |-> FALSE, isError |-> FALSE,
     hasError |-> TRUE, code |-> code, text |-> text]

PlainResponse(shape) ==
    [shape |-> shape, hasContent |-> FALSE, isError |-> FALSE,
     hasError |-> FALSE, code |-> 0, text |-> <<>>]

\* ---- journal entries (JournalManager.log_operation/log_tool_call/log_error)
\* log_entry appends to the in-memory cache and enqueues the write; none of
\* the three has a failing path.
OperationEntry(operation, method) ==
    [entry_type |-> "operation", level |-> "INFO", status |-> "completed",
     operation |-> operation, detail |-> method]

ToolCallEntry(tool_name, success, result) ==
    [entry_type |-> "api_call",
     level |-> IF success THEN "INFO" ELSE "ERROR",
     status |-> IF success THEN "completed" ELSE "failed",
     operation |-> tool_name, detail |-> result]

ErrorEntry(operation, message) ==
    [entry_type |-> "error", level |-> "ERROR", status |-> "failed",
     operation |-> operation, detail |-> message]

Log(jm, cache, entry) == IF jm THEN Append(cache, entry) ELSE cache

\* ---- response builders -------------------------------------------------

\* _handle_tool_call, tool_name not in the registry.
ToolNotFoundResponse(tool_name) ==
    ErrorEnvelope(-32601, <<"Tool not found", tool_name>>)

\* _handle_tool_call, the tool handler returned.
ToolSuccessResponse(result) ==
    ToolResponse(<<"json", result>>, FALSE)

\* _handle_tool_call, except Exception: the error-content response.
ToolFailureResponse_Envelope(tool_name, msg) ==
    ErrorEnvelope(-32603, <<"Error executing tool", tool_name, msg>>)

ToolFailureResponse(tool_name, msg) ==
    ToolResponse(<<"Error executing tool", tool_name, msg>>, TRUE)

\* handle_request, the final else branch.
MethodNotFoundResponse_InvalidRequest(method) ==
    ErrorEnvelope(-32600, <<"Method not found", method>>)

MethodNotFoundResponse(method) ==
    ErrorEnvelope(-32601, <<"Method not found", method>>)

\* handle_request, except Exception.
InternalErrorResponse(msg) ==
    ErrorEnvelope(-32603, <<"Internal error", msg>>)

\* ---- _handle_tool_call ---------------------------------------------------
\* Result of a call: the response returned, the journal cache afterwards and
\* the exception that left the method (NoException when it returned).
Returned(resp, cache) == [resp |-> resp, cache |-> cache, exc |-> NoException]
Raised(exc, cache) == [resp |-> NoResponse, cache |-> cache, exc |-> exc]

HandleToolCall(req, outcome, jm, registry, cache) ==
    IF req.params = "nondict"
    THEN \* params.get("name") on a value that has no .get
         Raised(Exception("AttributeError", "object has no attribute 'get'"), cache)
    ELSE IF req.name = "<unhashable>"
    THEN \* tool_name not in self._tools_registry hashes the name
         Raised(Exception("TypeError", "unhashable type"), cache)
    ELSE IF req.name \notin registry
    THEN Returned(ToolNotFoundResponse(req.name), cache)
    ELSE LET pre == Log(jm, cache, ToolCallEntry(req.name, TRUE, "<none>"))
         IN  IF outcome.ok
             THEN Returned(ToolSuccessResponse(outcome.msg),
                           Log(jm, pre, ToolCallEntry(req.name, TRUE, outcome.msg)))
             ELSE Returned(ToolFailureResponse(req.name, outcome.msg),
                           Log(jm,
                               Log(jm, pre, ToolCallEntry(req.name, FALSE, outcome.msg)),
                               ErrorEntry("tool_execution", outcome.msg)))

\* ---- handle_request ------------------------------------------------------
\* The method dispatch inside the try block.
Dispatch(req, outcome, jm, registry, cache) ==
    IF req.method = "initialize" THEN Returned(PlainResponse("initialize"), cache)
    ELSE IF req.method = "tools/list" THEN Returned(PlainResponse("tools"), cache)
    ELSE IF req.method = "tools/call"
         THEN HandleToolCall(req, outcome, jm, registry, cache)
    ELSE IF req.method = "ping" THEN Returned(PlainResponse("pong"), cache)
    ELSE IF req.method = "capabilities" THEN Returned(PlainResponse("capabilities"), cache)
    ELSE Returned(MethodNotFoundResponse(req.method), cache)

\* The whole of handle_request.  The debug log line and the session-id
\* lookup call request.get before the try block is entered.
HandleRequestResult(req, outcome, jm, registry, cache) ==
    IF req.kind = "nondict"
    THEN Raised(Exception("AttributeError", "object has no attribute 'get'"), cache)
    ELSE LET logged == Log(jm, cache, OperationEntry("mcp_request", req.method))
             d == Dispatch(req, outcome, jm, registry, logged)
         IN  IF d.exc = NoException
             THEN d
             ELSE Returned(InternalErrorResponse(d.exc.msg),
                           Log(jm, d.cache, ErrorEntry("mcp_request_error", d.exc.msg)))

\* The tool handler runs only when the call reaches _execute_tool.
ToolIsExecuted(req, registry) ==
    /\ req.kind = "dict"
    /\ req.method = "tools/call"
    /\ req.params = "dict"
    /\ req.name \in registry

\* Requests reach handle_request while the server is running (between start()
\* and stop()).
HandleRequest(req, outcome) ==
    /\ serverState = "running"
    /\ handled < MaxHandled
    /\ LET r == HandleRequestResult(req, outcome, journal_manager, tools_registry, entries_cache)
       IN  /\ response' = r.resp
           /\ raised' = r.exc
           /\ entries_cache' = r.cache
    /\ lastRequest' = req
    /\ lastOutcome' = outcome
    /\ lastRegistry' = tools_registry
    /\ handled' = handled + 1
    /\ UNCHANGED <<serverState, journal_manager, tools_registry>>
    /\ UNCHANGED <<routerVars, extVars>>

\* ---- start() / stop() ----------------------------------------------------
\* _initialize_components builds the components in this order; a failure at
\* one stage leaves the earlier ones constructed and re-raises.
InitStages == <<"llm_router", "docker_controller", "spec_manager",
                "research_engine", "journal_manager", "state_manager">>

StageIndex(stage) == CHOOSE i \in 1..Len(InitStages) : InitStages[i] = stage

\* failAt = 0: start() succeeds; failAt = i: stage i raises.
Start(failAt) ==
    /\ serverState = "constructed"
    /\ journal_manager' =
          (journal_manager \/ failAt = 0 \/ failAt > StageIndex("journal_manager"))
    /\ IF failAt = 0
       THEN /\ tools_registry' = ToolNames
            /\ serverState' = "running"
       ELSE UNCHANGED <<tools_registry, serverState>>
    /\ UNCHANGED <<entries_cache, lastRequest, lastOutcome, lastRegistry,
                   response, raised, handled>>
    /\ UNCHANGED <<routerVars, extVars>>

Stop ==
    /\ serverState = "running"
    /\ serverState' = "stopped"
    /\ UNCHANGED <<journal_manager, tools_registry, entries_cache, lastRequest,
                   lastOutcome, lastRegistry, response, raised, handled>>
    /\ UNCHANGED <<routerVars, extVars>>

NoRequest == [kind |-> "<none>", method |-> "<n/a>", params |-> "<n/a>", name |-> NoName]

InitServer ==
    /\ serverState = "constructed"
    /\ journal_manager = FALSE
    /\ tools_registry = {}
    /\ entries_cache = <<>>
    /\ lastRequest = NoRequest
    /\ lastOutcome = NoOutcome
    /\ lastRegistry = {}
    /\ response = NoResponse
    /\ raised = NoException
    /\ handled = 0

NextServer ==
    \/ \E failAt \in 0..Len(InitStages) : Start(failAt)
    \/ Stop
    \/ \E req \in Requests :
          \E outcome \in (IF ToolIsExecuted(req, tools_registry)
                          THEN ToolOutcomes ELSE {NoOutcome}) :
             HandleRequest(req, outcome)


(***************************************************************************)
(* Part II.  LLM router                                                    *)
(***************************************************************************)
Providers == {"openai", "moonshot"}
NoProvider == "<none>"
NoTime == -1

\* LLMRouter.__init__: default_provider or ConfigLLMProvider.OPENAI.value
DefaultProvider == "openai"

\* ProviderHealth.should_retry: timedelta(seconds=60)
RetryAfterSeconds == 60
\* RateLimiter(window_seconds=60)
WindowSeconds == 60
\* research RateLimiter.window_seconds and RateLimitConfig.window_size
ResearchWindowSeconds == 60
WindowSize == 60
\* RetryConfig.max_retries
MaxRetries == 3
\* RetryConfig.base_delay, max_delay and backoff_factor, in whole seconds.
BaseDelay == 1
MaxDelay == 60
BackoffFactor == 2
\* JournalManager builds its JournalRotationHandler with these
MaxSizeMb == 50
MaxFiles == 10
\* ResearchEngine(cache_ttl_minutes=60)
CacheTtlMinutes == 60
DefaultMaxVersions == 10

\* models.py declares LLMError as a plain dataclass: it does not derive from
\* BaseException.  "raise LLMError(...)" therefore raises TypeError, and an
\* "except LLMError" clause raises TypeError as soon as an exception reaches it.
\* Variant: LLMError derives from Exception, as its uses expect.
LLMErrorIsException_Derived == TRUE

LLMErrorIsException == FALSE

\* ---- ProviderHealth ------------------------------------------------------
FreshHealth == [is_healthy |-> TRUE, failure_count |-> 0, last_failure |-> NoTime]

RecordSuccess(h) == [h EXCEPT !.is_healthy = TRUE, !.failure_count = 0]

\* Variant: the threshold test reads "> 3", one failure late.
RecordFailure_Late(h, t) ==
    [is_healthy |-> IF h.failure_count + 1 > 3 THEN FALSE ELSE h.is_healthy,
     failure_count |-> h.failure_count + 1,
     last_failure |-> t]

RecordFailure(h, t) ==
    [is_healthy |-> IF h.failure_count + 1 >= 3 THEN FALSE ELSE h.is_healthy,
     failure_count |-> h.failure_count + 1,
     last_failure |-> t]

\* Variant: the waiting time compared with ">=" instead of ">".
ShouldRetry_AtSixty(h, t) ==
    IF ~h.is_healthy /\ h.last_failure # NoTime /\ t - h.last_failure >= RetryAfterSeconds
    THEN TRUE
    ELSE h.is_healthy

ShouldRetry(h, t) ==
    IF ~h.is_healthy /\ h.last_failure # NoTime /\ t - h.last_failure > RetryAfterSeconds
    THEN TRUE
    ELSE h.is_healthy

\* ---- RateLimiter ---------------------------------------------------------
\* is_allowed first drops the timestamps that left the window.
RECURSIVE Prune(_, _)
Prune(requests, t) ==
    IF requests = <<>> THEN <<>>
    ELSE IF t - Head(requests) < WindowSeconds
         THEN <<Head(requests)>> \o Prune(Tail(requests), t)
         ELSE Prune(Tail(requests), t)

IsAllowed(requests, t) == Len(Prune(requests, t)) < MaxRequestsPerWindow

\* Variant: the request is recorded only after the awaited provider call, so
\* the admission step leaves the list as it was.
RecordRequest_AfterAwait(requests, t) == requests

RecordRequest(requests, t) == Append(requests, t)

\* ---- routing rules -------------------------------------------------------
\* _setup_default_routing_rules
DefaultRoutingRules ==
    << [provider |-> "openai", priority |-> 1, fallback_providers |-> <<>>],
       [provider |-> "moonshot", priority |-> 2, fallback_providers |-> <<"openai">>] >>

\* sorted(self.routing_rules, key=lambda r: r.priority): a stable sort.
RECURSIVE SortByPriority(_)
SortByPriority(rules) ==
    IF rules = <<>> THEN <<>>
    ELSE LET least == CHOOSE i \in 1..Len(rules) :
                        /\ \A j \in 1..Len(rules) : rules[i].priority <= rules[j].priority
                        /\ \A j \in 1..(i - 1) : rules[j].priority > rules[i].priority
             rest == [k \in 1..(Len(rules) - 1) |->
                        IF k < least THEN rules[k] ELSE rules[k + 1]]
         IN  <<rules[least]>> \o SortByPriority(rest)

\* _get_fallback_providers: the list of the first rule naming the provider.
RECURSIVE GetFallbackProviders(_, _)
GetFallbackProviders(rules, current) ==
    IF rules = <<>> THEN <<>>
    ELSE IF Head(rules).provider = current THEN Head(rules).fallback_providers
    ELSE GetFallbackProviders(Tail(rules), current)

\* generate: the first fallback provider that has an instance replaces the
\* selected one; without one the selection stays.
RECURSIVE FirstInitialized(_, _, _)
FirstInitialized(fallbacks, instances, current) ==
    IF fallbacks = <<>> THEN current
    ELSE IF Head(fallbacks) \in instances THEN Head(fallbacks)
    ELSE FirstInitialized(Tail(fallbacks), instances, current)

\* ---- provider selection --------------------------------------------------
GetAvailableProviders(instances, health, t) ==
    {p \in Providers : p \in instances /\ ShouldRetry(health[p], t)}

\* Variant: the walk without the rate-limiter check.
RECURSIVE WalkRules_NoLimiter(_, _, _, _)
WalkRules_NoLimiter(rules, available, limiters, t) ==
    IF rules = <<>> THEN [provider |-> NoProvider, limiters |-> limiters]
    ELSE IF Head(rules).provider \in available
         THEN [provider |-> Head(rules).provider, limiters |-> limiters]
         ELSE WalkRules_NoLimiter(Tail(rules), available, limiters, t)

\* The walk over the sorted rules: the first rule whose provider is available
\* and whose limiter admits a request wins.  is_allowed prunes the limiter of
\* every provider it is asked about.
RECURSIVE WalkRules(_, _, _, _)
WalkRules(rules, available, limiters, t) ==
    IF rules = <<>> THEN [provider |-> NoProvider, limiters |-> limiters]
    ELSE LET p == Head(rules).provider IN
         IF p \in available
         THEN LET pruned == [limiters EXCEPT ![p] = Prune(limiters[p], t)] IN
              IF IsAllowed(limiters[p], t)
              THEN [provider |-> p, limiters |-> pruned]
              ELSE WalkRules(Tail(rules), available, pruned, t)
         ELSE WalkRules(Tail(rules), available, limiters, t)

\* select_provider(preferred): the set of possible outcomes, each with the
\* limiter state it leaves behind (random.choice makes it a set).
SelectProvider(preferred, instances, health, limiters, rules, t) ==
    LET available == GetAvailableProviders(instances, health, t)
        walk == WalkRules(SortByPriority(rules), available, limiters, t)
    IN  IF available = {}
        THEN {[provider |-> NoProvider, limiters |-> limiters]}
        ELSE IF preferred # NoProvider /\ preferred \in available
        THEN {[provider |-> preferred, limiters |-> limiters]}
        ELSE IF walk.provider # NoProvider
        THEN {walk}
        ELSE {[provider |-> p, limiters |-> walk.limiters] : p \in available}

\* ---- ghost bookkeeping ---------------------------------------------------
\* The run of failures that ends the outcomes recorded so far, once outcome
\* o ("S" or "F") has been recorded after a run of n.
Remember(n, o) ==
    IF o = "S" THEN 0 ELSE IF n < 3 THEN n + 1 ELSE 3

NoSelection == [called |-> FALSE, preferred |-> NoProvider, result |-> NoProvider]
NoError == [type |-> "<none>", error_type |-> "<none>", provider |-> NoProvider,
            retryable |-> FALSE]
NoGenResult == [status |-> "none", error |-> NoError, attempts |-> 0,
                noneAvailable |-> FALSE]
IdleGen == [preferred |-> NoProvider, selected |-> NoProvider, attempt |-> 0,
            last_error |-> NoError, noneAvailable |-> FALSE]

\* ---- exceptions ----------------------------------------------------------
LLMError(error_type, provider, retryable) ==
    [type |-> "LLMError", error_type |-> error_type, provider |-> provider,
     retryable |-> retryable]

TypeError(why) ==
    [type |-> "TypeError", error_type |-> why, provider |-> NoProvider,
     retryable |-> FALSE]

OtherException(kind) ==
    [type |-> kind, error_type |-> "<none>", provider |-> NoProvider,
     retryable |-> FALSE]

\* "raise LLMError(...)": what actually travels up the stack.
RaiseLLMError(err) ==
    IF LLMErrorIsException THEN err
    ELSE TypeError("exceptions must derive from BaseException")

\* What a provider adapter does with one request: it answers, or it reports
\* HTTP 429 / HTTP >= 400 / a network failure by "raise LLMError(...)" (all
\* three built with the default retryable=True), or another exception
\* (a timeout, a malformed body) escapes from it.
ProviderReplies == {"ok", "rate_limit", "timeout"}

ProviderException(p, reply) ==
    IF reply = "timeout" THEN OtherException("TimeoutError")
    ELSE RaiseLLMError(LLMError(reply, p, TRUE))

\* ---- the except clauses of generate -----------------------------------------
\* exc reached the handlers of the try statement in attempt g.attempt.
\* The result tells how the call goes on: "raise" ends it with .error, "retry"
\* starts the next attempt after the backoff sleep.
HandleAttemptFailure(exc, g, instances, health, rules, t) ==
    IF ~LLMErrorIsException
    THEN \* the first clause, "except LLMError", cannot be evaluated
         [next |-> "raise",
          error |-> TypeError("catching classes that do not inherit from BaseException"),
          gen |-> g, health |-> health, failed |-> NoProvider]
    ELSE IF exc.type = "LLMError"
    THEN LET h2 == [health EXCEPT ![g.selected] = RecordFailure(@, t)]
             g2 == [g EXCEPT !.last_error = exc]
         IN  IF ~exc.retryable \/ g.attempt >= retry_config.max_retries
             THEN [next |-> "raise", error |-> exc, gen |-> g2, health |-> h2,
                   failed |-> g.selected]
             ELSE [next |-> "retry", error |-> exc,
                   gen |-> [g2 EXCEPT
                              !.selected = FirstInitialized(
                                  GetFallbackProviders(rules, g.selected),
                                  instances, g.selected),
                              !.attempt = g.attempt + 1],
                   health |-> h2, failed |-> g.selected]
    ELSE LET wrapped == LLMError("unexpected_error", g.selected, FALSE)
         IN  [next |-> "raise", error |-> wrapped,
              gen |-> [g EXCEPT !.last_error = wrapped], health |-> health,
              failed |-> NoProvider]

\* Apply the outcome of the handlers to the state.
FailAttempt(exc) ==
    LET r == HandleAttemptFailure(exc, gen, provider_instances, health_status,
                                  routing_rules, now)
    IN  /\ health_status' = r.health
        /\ streak' = IF r.failed = NoProvider THEN streak
                       ELSE [streak EXCEPT ![r.failed] = Remember(@, "F")]
        /\ IF r.next = "retry"
           THEN /\ pc' = "try"
                /\ gen' = r.gen
                /\ UNCHANGED genResult
           ELSE /\ pc' = "idle"
                /\ gen' = IdleGen
                /\ genResult' = [status |-> "raised", error |-> r.error,
                                 attempts |-> gen.attempt + 1,
                                 noneAvailable |-> gen.noneAvailable]

\* ---- actions ---------------------------------------------------------------
\* The records of the latest select_provider and generate calls describe the
\* state those calls left; the next operation on the router discards them.
ForgetCalls ==
    /\ selection' = NoSelection
    /\ IF pc = "idle"
       THEN sent' = <<>> /\ replies' = <<>> /\ genResult' = NoGenResult
       ELSE UNCHANGED <<sent, replies, genResult>>

\* LLMRouter.initialize(): ok is the set of providers whose adapter could be
\* created and initialized; the others get a failure recorded.
Initialize(ok) ==
    /\ pc = "idle"
    /\ \A p \in Providers \ ok : health_status[p].failure_count < MaxFailureCount
    /\ provider_instances' = provider_instances \cup ok
    /\ health_status' = [p \in Providers |->
                           IF p \in ok THEN health_status[p]
                           ELSE RecordFailure(health_status[p], now)]
    /\ streak' = [p \in Providers |->
                      IF p \in ok THEN streak[p] ELSE Remember(streak[p], "F")]
    /\ ForgetCalls
    /\ UNCHANGED <<now, rate_limiters, routing_rules, pc, gen>>
    /\ UNCHANGED <<serverVars, extVars>>

\* LLMRouter.cleanup()
Cleanup ==
    /\ pc = "idle"
    /\ provider_instances # {}
    /\ provider_instances' = {}
    /\ ForgetCalls
    /\ UNCHANGED <<now, health_status, rate_limiters, routing_rules, pc, gen, streak>>
    /\ UNCHANGED <<serverVars, extVars>>

\* LLMRouter.reset_provider_health(name)
ResetProviderHealth(p) ==
    /\ health_status[p] # FreshHealth
    /\ health_status' = [health_status EXCEPT ![p] = FreshHealth]
    /\ streak' = [streak EXCEPT ![p] = 0]
    /\ ForgetCalls
    /\ UNCHANGED <<now, provider_instances, rate_limiters, routing_rules, pc, gen>>
    /\ UNCHANGED <<serverVars, extVars>>

Tick ==
    /\ now + TickStep <= MaxTime
    /\ now' = now + TickStep
    /\ ForgetCalls
    /\ UNCHANGED <<provider_instances, health_status, rate_limiters, routing_rules,
                   pc, gen, streak>>
    /\ UNCHANGED <<serverVars, extVars>>

\* A direct call of LLMRouter.select_provider(preferred).
SelectProviderCall(preferred) ==
    /\ pc = "idle"
    /\ \E s \in SelectProvider(preferred, provider_instances, health_status,
                               rate_limiters, routing_rules, now) :
          /\ selection' = [called |-> TRUE, preferred |-> preferred, result |-> s.provider]
          /\ rate_limiters' = s.limiters
    /\ sent' = <<>> /\ replies' = <<>> /\ genResult' = NoGenResult
    /\ UNCHANGED <<now, provider_instances, health_status, routing_rules, pc, gen,
                   streak>>
    /\ UNCHANGED <<serverVars, extVars>>

\* generate(request, provider=preferred) up to the start of the retry loop:
\* selected_provider = self.select_provider(provider) or self.default_provider
GenerateCall(preferred) ==
    /\ pc = "idle"
    /\ \E s \in SelectProvider(preferred, provider_instances, health_status,
                               rate_limiters, routing_rules, now) :
          /\ gen' = [preferred |-> preferred,
                     selected |-> IF s.provider # NoProvider THEN s.provider
                                  ELSE DefaultProvider,
                     attempt |-> 0,
                     last_error |-> NoError,
                     noneAvailable |-> (s.provider = NoProvider)]
          /\ rate_limiters' = s.limiters
    /\ pc' = "try"
    /\ sent' = <<>>
    /\ replies' = <<>>
    /\ genResult' = NoGenResult
    /\ selection' = NoSelection
    /\ UNCHANGED <<now, provider_instances, health_status, routing_rules, streak>>
    /\ UNCHANGED <<serverVars, extVars>>

\* One pass through the try block up to "await provider_instance.generate":
\* the instance lookup, the rate-limit check and record_request.
GenAttempt ==
    /\ pc = "try"
    /\ selection' = NoSelection
    /\ IF gen.selected \notin provider_instances
       THEN \* self.provider_instances[selected_provider] raises KeyError
            /\ FailAttempt(OtherException("KeyError"))
            /\ UNCHANGED <<rate_limiters, sent, replies>>
       ELSE IF ~IsAllowed(rate_limiters[gen.selected], now)
       THEN /\ FailAttempt(RaiseLLMError(LLMError("rate_limit", gen.selected, TRUE)))
            /\ rate_limiters' = [rate_limiters EXCEPT
                                   ![gen.selected] = Prune(@, now)]
            /\ UNCHANGED <<sent, replies>>
       ELSE /\ rate_limiters' = [rate_limiters EXCEPT
                                   ![gen.selected] = RecordRequest(Prune(@, now), now)]
            /\ sent' = Append(sent, gen.selected)
            /\ pc' = "awaiting"
            /\ UNCHANGED <<gen, replies, genResult, health_status, streak>>
    /\ UNCHANGED <<now, provider_instances, routing_rules>>
    /\ UNCHANGED <<serverVars, extVars>>

\* The provider call returns or raises, and generate runs on to its return,
\* its raise or the next attempt.
ProviderReply(reply) ==
    /\ pc = "awaiting"
    /\ replies' = Append(replies, reply)
    /\ selection' = NoSelection
    /\ IF reply = "ok"
       THEN /\ health_status' = [health_status EXCEPT ![gen.selected] = RecordSuccess(@)]
            /\ streak' = [streak EXCEPT ![gen.selected] = Remember(@, "S")]
            /\ genResult' = [status |-> "response", error |-> NoError,
                             attempts |-> gen.attempt + 1,
                             noneAvailable |-> gen.noneAvailable]
            /\ pc' = "idle"
            /\ gen' = IdleGen
       ELSE FailAttempt(ProviderException(gen.selected, reply))
    /\ UNCHANGED <<now, provider_instances, rate_limiters, routing_rules, sent>>
    /\ UNCHANGED <<serverVars, extVars>>

InitRouter ==
    /\ now = 0
    /\ provider_instances = {}
    /\ health_status = [p \in Providers |-> FreshHealth]
    /\ rate_limiters = [p \in Providers |-> <<>>]
    /\ routing_rules = DefaultRoutingRules
    /\ pc = "idle"
    /\ gen = IdleGen
    /\ sent = <<>>
    /\ replies = <<>>
    /\ genResult = NoGenResult
    /\ selection = NoSelection
    /\ streak = [p \in Providers |-> 0]

NextRouter ==
    \/ \E ok \in SUBSET Providers : Initialize(ok)
    \/ Cleanup
    \/ \E p \in Providers : ResetProviderHealth(p)
    \/ Tick
    \/ \E preferred \in Providers \cup {NoProvider} : SelectProviderCall(preferred)
    \/ \E preferred \in Providers \cup {NoProvider} : GenerateCall(preferred)
    \/ GenAttempt
    \/ \E reply \in ProviderReplies : ProviderReply(reply)

(***************************************************************************)
(* Part III.  Retry configuration (llm/models.py, RetryConfig)             *)
(***************************************************************************)
\* RetryConfig(): the defaults the router starts with.
DefaultRetryConfig ==
    [max_retries |-> MaxRetries, base_delay |-> BaseDelay,
     max_delay |-> MaxDelay, backoff_factor |-> BackoffFactor]

\* Configurations a caller hands to update_retry_config.
RetryConfigs ==
    {DefaultRetryConfig}
    \cup [max_retries : {0, 1}, base_delay : {1, 2}, max_delay : {5},
          backoff_factor : {1, 3}]

Min(a, b) == IF a <= b THEN a ELSE b

\* Variant: the delay without the max_delay cap.
GetDelay_Uncapped(cfg, attempt) ==
    cfg.base_delay * (cfg.backoff_factor ^ attempt)

\* RetryConfig.get_delay(attempt)
GetDelay(cfg, attempt) ==
    Min(cfg.base_delay * (cfg.backoff_factor ^ attempt), cfg.max_delay)

NoDelay == [computed |-> FALSE, attempt |-> 0, delay |-> 0]

\* LLMRouter.update_retry_config(cfg)
UpdateRetryConfig(cfg) ==
    /\ pc = "idle"
    /\ cfg # retry_config
    /\ retry_config' = cfg
    /\ lastDelay' = NoDelay
    /\ ForgetCalls
    /\ UNCHANGED <<now, provider_instances, health_status, rate_limiters,
                   routing_rules, pc, gen, streak>>
    /\ UNCHANGED <<serverVars, convVars, streamVars, limiterVars, journalVars, rotationVars, laterVars>>

\* self.retry_config.get_delay(attempt), for the attempt numbers a retry loop
\* of up to MaxDelayAttempt + 1 passes can hand it.
GetDelayCall(attempt) ==
    /\ lastDelay' = [computed |-> TRUE, attempt |-> attempt,
                     delay |-> GetDelay(retry_config, attempt)]
    /\ UNCHANGED retry_config
    /\ UNCHANGED <<serverVars, routerVars, convVars, streamVars, limiterVars, journalVars, rotationVars, laterVars>>

InitRetry ==
    /\ retry_config = DefaultRetryConfig
    /\ lastDelay = NoDelay

\* The retry loop of generate together with the configuration it reads.
NextRetry ==
    \/ \E cfg \in RetryConfigs : UpdateRetryConfig(cfg)
    \/ \E attempt \in 0..MaxDelayAttempt : GetDelayCall(attempt)
    \/ Initialize(Providers)
    \/ \E preferred \in Providers \cup {NoProvider} : GenerateCall(preferred)
    \/ GenAttempt
    \/ \E reply \in ProviderReplies : ProviderReply(reply)

(***************************************************************************)
(* Part IV.  Conversation contexts of the router (llm/router.py)           *)
(*                                                                         *)
(* generate calls run as tasks of one event loop: each runs without        *)
(* interruption from one await to the next, and several may be waiting for *)
(* their provider at the same time.                                        *)
(***************************************************************************)
Conversations == {"s1", "s2"}
NoConversation == "<none>"
Tasks == {"t1", "t2"}

\* request.messages as the caller built it: the roles of its messages.
RequestShapes == {<<"user">>, <<"system", "user">>}

\* The messages of the request of call number n.
OwnMessages(shape, n) ==
    [i \in 1..Len(shape) |-> [role |-> shape[i], call |-> n, idx |-> i]]

\* Message(role=ASSISTANT, content=response.content) for call number n.
AssistantReply(n) == [role |-> "assistant", call |-> n, idx |-> 0]

IsUser(msg) == msg.role = "user"

\* generate: request.messages = context.messages + request.messages
PrependHistory(history, messages) == history \o messages

\* Variant: the new messages are put in front of the history.
UpdateContext_InFront(history, request_messages, reply) ==
    SelectSeq(request_messages, IsUser) \o <<reply>> \o history

\* _update_context: every user message of request.messages, then the reply.
UpdateContext(history, request_messages, reply) ==
    history \o SelectSeq(request_messages, IsUser) \o <<reply>>

FreeCall == [pc |-> "free", number |-> 0, conversation_id |-> NoConversation,
             own |-> <<>>, messages |-> <<>>, gen |-> IdleGen]

NoUpdate == [happened |-> FALSE, conversation_id |-> NoConversation,
             before |-> <<>>, own |-> <<>>, reply |-> AssistantReply(0),
             after |-> <<>>]

\* generate(request, provider=preferred, conversation_id=conv) up to the
\* start of the retry loop, run by task c.
ConvGenerateCall(c, conv, shape, preferred) ==
    /\ calls[c].pc = "free"
    /\ convStarted < MaxConvCalls
    /\ convStarted' = convStarted + 1
    /\ \E s \in SelectProvider(preferred, provider_instances, health_status,
                               rate_limiters, routing_rules, now) :
          /\ calls' = [calls EXCEPT ![c] =
                [pc |-> "try",
                 number |-> convStarted + 1,
                 conversation_id |-> conv,
                 own |-> OwnMessages(shape, convStarted + 1),
                 messages |-> IF conv # NoConversation
                              THEN PrependHistory(conversation_contexts[conv],
                                                  OwnMessages(shape, convStarted + 1))
                              ELSE OwnMessages(shape, convStarted + 1),
                 gen |-> [preferred |-> preferred,
                          selected |-> IF s.provider # NoProvider THEN s.provider
                                       ELSE DefaultProvider,
                          attempt |-> 0,
                          last_error |-> NoError,
                          noneAvailable |-> (s.provider = NoProvider)]]]
          /\ rate_limiters' = s.limiters
    /\ UNCHANGED <<conversation_contexts, completionOrder, lastUpdate>>
    /\ UNCHANGED <<now, provider_instances, health_status, routing_rules, pc, gen,
                   sent, replies, genResult, selection, streak>>
    /\ UNCHANGED <<serverVars, retryVars, streamVars, limiterVars, journalVars, rotationVars, laterVars>>

\* What the except clauses make of exc for the call of task c.
ConvFailAttempt(c, exc) ==
    LET r == HandleAttemptFailure(exc, calls[c].gen, provider_instances,
                                  health_status, routing_rules, now)
    IN  /\ health_status' = r.health
        /\ streak' = IF r.failed = NoProvider THEN streak
                      ELSE [streak EXCEPT ![r.failed] = Remember(@, "F")]
        /\ calls' = [calls EXCEPT ![c] =
                        IF r.next = "retry"
                        THEN [@ EXCEPT !.pc = "try", !.gen = r.gen]
                        ELSE FreeCall]

\* One pass of task c through the try block up to the provider call.
ConvAttempt(c) ==
    /\ calls[c].pc = "try"
    /\ LET p == calls[c].gen.selected IN
       IF p \notin provider_instances
       THEN /\ ConvFailAttempt(c, OtherException("KeyError"))
            /\ UNCHANGED rate_limiters
       ELSE IF ~IsAllowed(rate_limiters[p], now)
       THEN /\ ConvFailAttempt(c, RaiseLLMError(LLMError("rate_limit", p, TRUE)))
            /\ rate_limiters' = [rate_limiters EXCEPT ![p] = Prune(@, now)]
       ELSE /\ rate_limiters' = [rate_limiters EXCEPT
                                   ![p] = RecordRequest(Prune(@, now), now)]
            /\ calls' = [calls EXCEPT ![c].pc = "awaiting"]
            /\ UNCHANGED <<health_status, streak>>
    /\ UNCHANGED <<conversation_contexts, convStarted, completionOrder, lastUpdate>>
    /\ UNCHANGED <<now, provider_instances, routing_rules, pc, gen, sent, replies,
                   genResult, selection>>
    /\ UNCHANGED <<serverVars, retryVars, streamVars, limiterVars, journalVars, rotationVars, laterVars>>

\* The provider call of task c returns or raises; on a response the health
\* record and the conversation context are updated before generate returns.
ConvProviderReply(c, reply) ==
    /\ calls[c].pc = "awaiting"
    /\ IF reply = "ok"
       THEN LET conv == calls[c].conversation_id
                answer == AssistantReply(calls[c].number)
            IN  /\ health_status' = [health_status EXCEPT
                                       ![calls[c].gen.selected] = RecordSuccess(@)]
                /\ streak' = [streak EXCEPT
                                ![calls[c].gen.selected] = Remember(@, "S")]
                /\ calls' = [calls EXCEPT ![c] = FreeCall]
                /\ IF conv # NoConversation
                   THEN LET after == UpdateContext(conversation_contexts[conv],
                                                   calls[c].messages, answer)
                        IN  /\ conversation_contexts' =
                                  [conversation_contexts EXCEPT ![conv] = after]
                            /\ completionOrder' = Append(completionOrder,
                                  [call |-> calls[c].number, conversation_id |-> conv])
                            /\ lastUpdate' =
                                  [happened |-> TRUE, conversation_id |-> conv,
                                   before |-> conversation_contexts[conv],
                                   own |-> calls[c].own, reply |-> answer,
                                   after |-> after]
                   ELSE UNCHANGED <<conversation_contexts, completionOrder, lastUpdate>>
       ELSE /\ ConvFailAttempt(c, ProviderException(calls[c].gen.selected, reply))
            /\ UNCHANGED <<conversation_contexts, completionOrder, lastUpdate>>
    /\ UNCHANGED convStarted
    /\ UNCHANGED <<now, provider_instances, rate_limiters, routing_rules, pc, gen,
                   sent, replies, genResult, selection>>
    /\ UNCHANGED <<serverVars, retryVars, streamVars, limiterVars, journalVars, rotationVars, laterVars>>

InitConversation ==
    /\ conversation_contexts = [conv \in Conversations |-> <<>>]
    /\ calls = [c \in Tasks |-> FreeCall]
    /\ convStarted = 0
    /\ completionOrder = <<>>
    /\ lastUpdate = NoUpdate

NextConversation ==
    \/ Initialize(Providers)
    \/ \E c \in Tasks, conv \in Conversations \cup {NoConversation},
          shape \in RequestShapes, preferred \in {NoProvider, "moonshot"} :
             ConvGenerateCall(c, conv, shape, preferred)
    \/ \E c \in Tasks : ConvAttempt(c)
    \/ \E c \in Tasks, reply \in ProviderReplies : ConvProviderReply(c, reply)

(***************************************************************************)
(* Part V.  Streaming generation (llm/router.py, generate_stream)          *)
(***************************************************************************)
\* What the provider's stream does next: it yields a content chunk, yields
\* its final chunk and ends, or raises (HTTP 429 by "raise LLMError(...)",
\* a timeout as another exception).
StreamEvents == {"content", "final", "rate_limit", "timeout"}

NoStreamResult == [status |-> "none", error |-> NoError, failed |-> FALSE]

\* The only except clause of generate_stream is "except LLMError"; after the
\* loop the error is yielded as a final chunk.  The result tells how the call
\* goes on: "raise" lets .error escape to the consumer, "retry" starts the next
\* attempt, "error_chunk" leaves the loop with last_error set.
StreamHandleFailure(exc, g, instances, health, rules, t) ==
    IF ~LLMErrorIsException
    THEN [next |-> "raise",
          error |-> TypeError("catching classes that do not inherit from BaseException"),
          gen |-> g, health |-> health, failed |-> NoProvider]
    ELSE IF exc.type = "LLMError"
    THEN LET h2 == [health EXCEPT ![g.selected] = RecordFailure(@, t)]
             g2 == [g EXCEPT !.last_error = exc]
         IN  IF ~exc.retryable \/ g.attempt >= retry_config.max_retries
             THEN [next |-> "error_chunk", error |-> exc, gen |-> g2, health |-> h2,
                   failed |-> g.selected]
             ELSE [next |-> "retry", error |-> exc,
                   gen |-> [g2 EXCEPT
                              !.selected = FirstInitialized(
                                  GetFallbackProviders(rules, g.selected),
                                  instances, g.selected),
                              !.attempt = g.attempt + 1],
                   health |-> h2, failed |-> g.selected]
    ELSE [next |-> "raise", error |-> exc, gen |-> g, health |-> health,
          failed |-> NoProvider]

StreamFailAttempt(exc) ==
    LET r == StreamHandleFailure(exc, sgen, provider_instances, health_status,
                                 routing_rules, now)
    IN  /\ health_status' = r.health
        /\ streak' = IF r.failed = NoProvider THEN streak
                      ELSE [streak EXCEPT ![r.failed] = Remember(@, "F")]
        /\ UNCHANGED chunk_attempts
        /\ IF r.next = "retry"
           THEN /\ spc' = "try"
                /\ sgen' = r.gen
                /\ UNCHANGED <<chunks, streamResult>>
           ELSE /\ spc' = "idle"
                /\ sgen' = IdleGen
                /\ chunks' = IF r.next = "error_chunk"
                             THEN Append(chunks, "error_final") ELSE chunks
                /\ streamResult' =
                      [status |-> IF r.next = "raise" THEN "raised" ELSE "ended",
                       error |-> r.error, failed |-> TRUE]

\* generate_stream(request, provider=preferred) up to the start of the loop.
StreamCall(preferred) ==
    /\ spc = "idle"
    /\ \E s \in SelectProvider(preferred, provider_instances, health_status,
                               rate_limiters, routing_rules, now) :
          /\ sgen' = [preferred |-> preferred,
                      selected |-> IF s.provider # NoProvider THEN s.provider
                                   ELSE DefaultProvider,
                      attempt |-> 0,
                      last_error |-> NoError,
                      noneAvailable |-> (s.provider = NoProvider)]
          /\ rate_limiters' = s.limiters
    /\ spc' = "try"
    /\ chunks' = <<>>
    /\ chunk_attempts' = <<>>
    /\ streamResult' = NoStreamResult
    /\ UNCHANGED <<now, provider_instances, health_status, routing_rules, pc, gen,
                   sent, replies, genResult, selection, streak>>
    /\ UNCHANGED <<serverVars, retryVars, convVars, limiterVars, journalVars, rotationVars, laterVars>>

\* One pass through the try block up to the start of the provider's stream.
StreamAttempt ==
    /\ spc = "try"
    /\ IF sgen.selected \notin provider_instances
       THEN /\ StreamFailAttempt(OtherException("KeyError"))
            /\ UNCHANGED rate_limiters
       ELSE IF ~IsAllowed(rate_limiters[sgen.selected], now)
       THEN /\ StreamFailAttempt(RaiseLLMError(LLMError("rate_limit", sgen.selected, TRUE)))
            /\ rate_limiters' = [rate_limiters EXCEPT
                                   ![sgen.selected] = Prune(@, now)]
       ELSE /\ rate_limiters' = [rate_limiters EXCEPT
                                   ![sgen.selected] = RecordRequest(Prune(@, now), now)]
            /\ spc' = "streaming"
            /\ UNCHANGED <<sgen, chunks, chunk_attempts, streamResult, health_status, streak>>
    /\ UNCHANGED <<now, provider_instances, routing_rules, pc, gen, sent, replies,
                   genResult, selection>>
    /\ UNCHANGED <<serverVars, retryVars, convVars, limiterVars, journalVars, rotationVars, laterVars>>

\* The next event of the provider's stream, handed on to the consumer.
StreamChunkArrives(event) ==
    /\ spc = "streaming"
    /\ IF event = "content"
       THEN /\ Len(chunks) < MaxChunks
            /\ chunks' = Append(chunks, "content")
            /\ chunk_attempts' = Append(chunk_attempts, sgen.attempt)
            /\ UNCHANGED <<spc, sgen, streamResult, health_status, streak>>
       ELSE IF event = "final"
       THEN /\ health_status' = [health_status EXCEPT ![sgen.selected] = RecordSuccess(@)]
            /\ streak' = [streak EXCEPT ![sgen.selected] = Remember(@, "S")]
            /\ chunks' = Append(chunks, "final")
            /\ chunk_attempts' = Append(chunk_attempts, sgen.attempt)
            /\ spc' = "idle"
            /\ sgen' = IdleGen
            /\ streamResult' = [status |-> "ended", error |-> NoError, failed |-> FALSE]
       ELSE StreamFailAttempt(ProviderException(sgen.selected, event))
    /\ UNCHANGED <<now, provider_instances, rate_limiters, routing_rules, pc, gen,
                   sent, replies, genResult, selection>>
    /\ UNCHANGED <<serverVars, retryVars, convVars, limiterVars, journalVars, rotationVars, laterVars>>

InitStream ==
    /\ spc = "idle"
    /\ sgen = IdleGen
    /\ chunks = <<>>
    /\ chunk_attempts = <<>>
    /\ streamResult = NoStreamResult

NextStream ==
    \/ \E ok \in SUBSET Providers : Initialize(ok)
    \/ \E preferred \in Providers \cup {NoProvider} : StreamCall(preferred)
    \/ StreamAttempt
    \/ \E event \in StreamEvents : StreamChunkArrives(event)

(***************************************************************************)
(* Part VI.  The rate limiters (llm/router.py, research/engine.py,         *)
(* security.py)                                                            *)
(***************************************************************************)
\* The identifiers the security limiter is asked about.
Identifiers == {"client-a", "client-b"}

ResearchKey == "research"

LimiterKeys == Providers \cup {ResearchKey} \cup Identifiers

\* research RateLimiter.can_make_request: drop the calls that left the
\* window, then compare the count with max_calls.
RECURSIVE ResearchPrune(_, _)
ResearchPrune(call_times, t) ==
    IF call_times = <<>> THEN <<>>
    ELSE IF t - Head(call_times) < ResearchWindowSeconds
         THEN <<Head(call_times)>> \o ResearchPrune(Tail(call_times), t)
         ELSE ResearchPrune(Tail(call_times), t)

CanMakeRequest(call_times, t) == Len(ResearchPrune(call_times, t)) < ResearchMaxCalls

\* security RateLimiter.check_rate_limit, the cleaning of old requests.
RECURSIVE SecurityPrune(_, _)
SecurityPrune(requests, t) ==
    IF requests = <<>> THEN <<>>
    ELSE IF Head(requests) > t - WindowSize
         THEN <<Head(requests)>> \o SecurityPrune(Tail(requests), t)
         ELSE SecurityPrune(Tail(requests), t)

CheckRateLimit_AtLimit(requests, t) ==
    LET kept == SecurityPrune(requests, t)
    IN  IF Len(kept) > RequestsPerMinute
        THEN [ok |-> FALSE, requests |-> kept]
        ELSE [ok |-> TRUE, requests |-> Append(kept, t)]

\* security RateLimiter.check_rate_limit(identifier) on the identifier's list:
\* the answer and the list it leaves behind.
CheckRateLimit(requests, t) ==
    LET kept == SecurityPrune(requests, t)
    IN  IF Len(kept) >= RequestsPerMinute
        THEN [ok |-> FALSE, requests |-> kept]
        ELSE [ok |-> TRUE, requests |-> Append(kept, t)]

\* Time passes between two requests.
LimiterTick ==
    /\ now + LimiterStep <= MaxLimiterTime
    /\ now' = now + LimiterStep
    /\ UNCHANGED <<provider_instances, health_status, rate_limiters, routing_rules,
                   pc, gen, sent, replies, genResult, selection, streak>>
    /\ UNCHANGED <<serverVars, retryVars, convVars, streamVars, limiterVars, journalVars, rotationVars, laterVars>>

\* The router's admission of one provider attempt: is_allowed, and
\* record_request when it says yes (generate and generate_stream).
RouterAdmission(p) ==
    /\ IF IsAllowed(rate_limiters[p], now)
       THEN /\ rate_limiters' = [rate_limiters EXCEPT
                                   ![p] = RecordRequest(Prune(@, now), now)]
            /\ admitted' = [admitted EXCEPT ![p] = Append(@, now)]
       ELSE /\ rate_limiters' = [rate_limiters EXCEPT ![p] = Prune(@, now)]
            /\ UNCHANGED admitted
    /\ UNCHANGED <<now, provider_instances, health_status, routing_rules,
                   pc, gen, sent, replies, genResult, selection, streak>>
    /\ UNCHANGED <<research_calls, security_requests>>
    /\ UNCHANGED <<serverVars, retryVars, convVars, streamVars, journalVars, rotationVars, laterVars>>

\* The research engine's admission of one search: can_make_request, and
\* record_request when it says yes.
ResearchAdmission ==
    /\ IF CanMakeRequest(research_calls, now)
       THEN /\ research_calls' = Append(ResearchPrune(research_calls, now), now)
            /\ admitted' = [admitted EXCEPT ![ResearchKey] = Append(@, now)]
       ELSE /\ research_calls' = ResearchPrune(research_calls, now)
            /\ UNCHANGED admitted
    /\ UNCHANGED security_requests
    /\ UNCHANGED <<serverVars, routerVars, retryVars, convVars, streamVars, journalVars, rotationVars, laterVars>>

\* check_rate_limit(identifier)
SecurityAdmission(identifier) ==
    LET r == CheckRateLimit(security_requests[identifier], now)
    IN  /\ security_requests' = [security_requests EXCEPT ![identifier] = r.requests]
        /\ admitted' = IF r.ok THEN [admitted EXCEPT ![identifier] = Append(@, now)]
                       ELSE admitted
        /\ UNCHANGED research_calls
        /\ UNCHANGED <<serverVars, routerVars, retryVars, convVars, streamVars, journalVars, rotationVars, laterVars>>

InitLimiter ==
    /\ research_calls = <<>>
    /\ security_requests = [i \in Identifiers |-> <<>>]
    /\ admitted = [k \in LimiterKeys |-> <<>>]

NextLimiter ==
    \/ LimiterTick
    \/ \E p \in Providers : RouterAdmission(p)
    \/ ResearchAdmission
    \/ \E identifier \in Identifiers : SecurityAdmission(identifier)

(***************************************************************************)
(* Part VII.  The journal's queue, worker and shutdown (journal/manager.py) *)
(***************************************************************************)
\* The None that cleanup() puts on the queue.
ShutdownSignal == 0

NoEntry == 0

otherJournalVars == <<serverVars, routerVars, retryVars, convVars, streamVars,
                      limiterVars, rotationVars, laterVars>>

Enqueue_AtFront(q, task) == <<task>> \o q

\* queue.Queue.put: first in, first out.
Enqueue(q, task) == Append(q, task)

\* _write_entry_sync(entry): the file and the error log it leaves behind.  Every
\* exception raised while the entry is formatted or written is caught and
\* recorded; nothing is raised.
WriteEntrySync(file, errors, entry, by) ==
    IF entry \in unwritable
    THEN [file |-> file, errors |-> errors \cup {entry}]
    ELSE [file |-> Append(file, [entry |-> entry, by |-> by]), errors |-> errors]

AfterTask_StopsOnFailure(entry) == IF entry \in unwritable THEN "exited" ELSE "check"

\* _worker_loop after a task, whether it went well or not: back to the test of
\* the loop.
AfterTask(entry) == "check"

\* log_entry(entry) with async_write, the only form the repository calls; the
\* input says whether the entry's data can be written (json.dumps of the data
\* raises TypeError otherwise).
LogEntry(writable) ==
    /\ cpc = "none"
    /\ log_count < MaxEntries
    /\ log_count' = log_count + 1
    /\ unwritable' = IF writable THEN unwritable ELSE unwritable \cup {log_count + 1}
    /\ jqueue' = Enqueue(jqueue, log_count + 1)
    /\ UNCHANGED <<stop_event, worker, written, error_log, cpc, shutdown>>
    /\ UNCHANGED otherJournalVars

\* _worker_loop: "while not self._stop_event.is_set()"
WorkerCheck ==
    /\ worker.at = "check"
    /\ worker' = [worker EXCEPT !.at = IF stop_event THEN "exited" ELSE "get"]
    /\ UNCHANGED <<log_count, unwritable, jqueue, stop_event, written, error_log, cpc,
                   shutdown>>
    /\ UNCHANGED otherJournalVars

\* _worker_loop: self._queue.get(timeout=1) hands over a task, or gives up
\* after a second on an empty queue.
WorkerGet ==
    /\ worker.at = "get"
    /\ IF jqueue = <<>>
       THEN /\ worker' = [worker EXCEPT !.at = "check"]
            /\ UNCHANGED jqueue
       ELSE /\ jqueue' = Tail(jqueue)
            /\ worker' = IF Head(jqueue) = ShutdownSignal
                         THEN [at |-> "exited", holding |-> NoEntry]
                         ELSE [at |-> "writing", holding |-> Head(jqueue)]
    /\ UNCHANGED <<log_count, unwritable, stop_event, written, error_log, cpc, shutdown>>
    /\ UNCHANGED otherJournalVars

\* _worker_loop: the write of the task in hand completes.
WorkerWrite ==
    /\ worker.at = "writing"
    /\ LET r == WriteEntrySync(written, error_log, worker.holding, "worker")
       IN  /\ written' = r.file
           /\ error_log' = r.errors
    /\ worker' = [at |-> AfterTask(worker.holding), holding |-> NoEntry]
    /\ UNCHANGED <<log_count, unwritable, jqueue, stop_event, cpc, shutdown>>
    /\ UNCHANGED otherJournalVars

\* The entries not yet through a write: those queued and the one in the
\* worker's hands.
RECURSIVE QueuedEntries(_)
QueuedEntries(q) ==
    IF q = <<>> THEN {}
    ELSE (IF Head(q) = ShutdownSignal THEN {} ELSE {Head(q)}) \cup QueuedEntries(Tail(q))

Pending == QueuedEntries(jqueue) \cup (IF worker.holding = NoEntry THEN {} ELSE {worker.holding})

\* cleanup(): self._stop_event.set()
CleanupBegin ==
    /\ cpc = "none"
    /\ stop_event' = TRUE
    /\ cpc' = "signal"
    /\ shutdown' = [shutdown EXCEPT !.pending = Pending]
    /\ UNCHANGED <<log_count, unwritable, jqueue, worker, written, error_log>>
    /\ UNCHANGED otherJournalVars

\* cleanup(): a live worker is sent the None signal and joined.
CleanupSignal ==
    /\ cpc = "signal"
    /\ IF worker.at # "exited"
       THEN /\ jqueue' = Enqueue(jqueue, ShutdownSignal)
            /\ cpc' = "join"
       ELSE /\ cpc' = "drain"
            /\ UNCHANGED jqueue
    /\ UNCHANGED <<log_count, unwritable, stop_event, worker, written, error_log, shutdown>>
    /\ UNCHANGED otherJournalVars

\* cleanup(): join(timeout=5) returns, because the worker has exited or, with
\* the worker still inside a write, because the five seconds are over.
CleanupJoin ==
    /\ cpc = "join"
    /\ worker.at \in {"exited", "writing"}
    /\ cpc' = "drain"
    /\ shutdown' = [shutdown EXCEPT
                      !.timed_out = (worker.at # "exited"),
                      !.unfinished = IF worker.at # "exited" THEN {worker.holding} ELSE {}]
    /\ UNCHANGED <<log_count, unwritable, jqueue, stop_event, worker, written, error_log>>
    /\ UNCHANGED otherJournalVars

\* cleanup(): one turn of "while not self._queue.empty()", or its end.
CleanupDrain ==
    /\ cpc = "drain"
    /\ IF jqueue = <<>>
       THEN /\ cpc' = "returned"
            /\ shutdown' = [shutdown EXCEPT !.written_at_return = written]
            /\ UNCHANGED <<jqueue, written, error_log>>
       ELSE /\ jqueue' = Tail(jqueue)
            /\ IF Head(jqueue) = ShutdownSignal
               THEN UNCHANGED <<written, error_log>>
               ELSE LET r == WriteEntrySync(written, error_log, Head(jqueue), "cleanup")
                    IN  /\ written' = r.file
                        /\ error_log' = r.errors
            /\ UNCHANGED <<cpc, shutdown>>
    /\ UNCHANGED <<log_count, unwritable, stop_event, worker>>
    /\ UNCHANGED otherJournalVars

LogRaises_WritesInline(jm, writable) == jm /\ ~writable

\* Whether a log_operation, log_tool_call or log_error call of the server
\* raises: the call builds the entry, appends it to the cache and puts it on
\* the queue; the write, which may fail, happens later in the worker thread.
LogRaises(jm, writable) == FALSE

\* handle_request when its journal calls raise: the exception of log_operation
\* lands in the except clause of handle_request, whose own log_error call
\* raises out of the handler; otherwise handle_request as in Part I.
JournaledResult(req, outcome, jm, registry, cache, logRaises) ==
    IF logRaises /\ req.kind = "dict"
    THEN Raised(Exception("JournalError", "journal logging failed"), cache)
    ELSE HandleRequestResult(req, outcome, jm, registry, cache)

\* The entries numbered from first to last, put on the queue in that order.
RECURSIVE EnqueueAll(_, _, _)
EnqueueAll(q, first, last) ==
    IF first > last THEN q ELSE EnqueueAll(Enqueue(q, first), first + 1, last)

\* handle_request on a server whose journal manager runs its worker thread:
\* every journal call of the request goes through log_entry.  The input says
\* whether the entries of this request can be written.
JournaledRequest(req, outcome, writable) ==
    /\ serverState = "running"
    /\ handled < MaxJournaled
    /\ log_count < MaxEntries
    /\ cpc = "none"
    /\ LET r == JournaledResult(req, outcome, journal_manager, tools_registry,
                                entries_cache, LogRaises(journal_manager, writable))
           n == Len(r.cache) - Len(entries_cache)
       IN  /\ response' = r.resp
           /\ raised' = r.exc
           /\ entries_cache' = r.cache
           /\ log_count' = log_count + n
           /\ jqueue' = EnqueueAll(jqueue, log_count + 1, log_count + n)
           /\ unwritable' = IF writable THEN unwritable
                            ELSE unwritable \cup ((log_count + 1)..(log_count + n))
    /\ lastRequest' = req
    /\ lastOutcome' = outcome
    /\ lastRegistry' = tools_registry
    /\ handled' = handled + 1
    /\ UNCHANGED <<serverState, journal_manager, tools_registry>>
    /\ UNCHANGED <<stop_event, worker, written, error_log, cpc, shutdown>>
    /\ UNCHANGED <<routerVars, retryVars, convVars, streamVars, limiterVars,
                   rotationVars, laterVars>>

InitJournal ==
    /\ log_count = 0
    /\ unwritable = {}
    /\ jqueue = <<>>
    /\ stop_event = FALSE
    /\ worker = [at |-> "check", holding |-> NoEntry]
    /\ written = <<>>
    /\ error_log = {}
    /\ cpc = "none"
    /\ shutdown = [pending |-> {}, timed_out |-> FALSE,
                   unfinished |-> {}, written_at_return |-> <<>>]

NextJournaled ==
    \/ \E failAt \in 0..Len(InitStages) : Start(failAt)
    \/ \E req \in Requests :
          \E outcome \in (IF ToolIsExecuted(req, tools_registry)
                          THEN ToolOutcomes ELSE {NoOutcome}) :
             \E writable \in BOOLEAN : JournaledRequest(req, outcome, writable)
    \/ WorkerCheck
    \/ WorkerGet
    \/ WorkerWrite

\* The journaled server from a successful start to its stop.  stop() runs
\* _cleanup_components, which makes no call on the journal manager, so the
\* worker thread goes on as before.
NextStopJournaled ==
    \/ Start(0)
    \/ \E req \in Requests : \E writable \in BOOLEAN :
          /\ ~ToolIsExecuted(req, tools_registry)
          /\ JournaledRequest(req, NoOutcome, writable)
    \/ Stop
    \/ WorkerCheck
    \/ WorkerGet
    \/ WorkerWrite

NextJournal ==
    \/ \E writable \in BOOLEAN : LogEntry(writable)
    \/ WorkerCheck
    \/ WorkerGet
    \/ WorkerWrite
    \/ CleanupBegin
    \/ CleanupSignal
    \/ CleanupJoin
    \/ CleanupDrain

(***************************************************************************)
(* Part VIII.  Journal file rotation (journal/manager.py,                  *)
(* JournalRotationHandler)                                                 *)
(***************************************************************************)
\* current_file is None; file names are the seconds of their creation.
NoFile == -999

otherRotationVars == <<serverVars, routerVars, retryVars, convVars, streamVars,
                       limiterVars, journalVars, laterVars>>

FileNames(fs) == {f.name : f \in fs}

FileNamed(fs, name) == CHOOSE f \in fs : f.name = name

\* The journal files left in the directory by earlier runs of the server:
\* count of them, each full, the i-th oldest written i seconds before this
\* run started.
OldFiles(count) == {[name |-> 0 - i, mtime |-> 0 - i, size |-> MaxSizeMb] : i \in 1..count}

ShouldRotate_OverOnly(fs, current) ==
    \/ current = NoFile
    \/ current \notin FileNames(fs)
    \/ FileNamed(fs, current).size > MaxSizeMb

\* _should_rotate: no current file, the file is gone, or its size in MB has
\* reached max_size_mb.
ShouldRotate(fs, current) ==
    \/ current = NoFile
    \/ current \notin FileNames(fs)
    \/ FileNamed(fs, current).size >= MaxSizeMb

\* _create_new_file up to the cleanup: journal_<second>.md is opened with
\* mode 'w', which creates the file or empties the one of that name.
CreateNewFile(fs, t) ==
    {f \in fs : f.name # t} \cup {[name |-> t, mtime |-> t, size |-> 0]}

\* The size of what open(new_file, 'w') empties: the entries held by the file
\* that already has the name of second t, 0 when there is none.
Overwritten(fs, t) == IF t \in FileNames(fs) THEN FileNamed(fs, t).size ELSE 0

\* _cleanup_old_files: the files sorted by mtime, newest first, lose all but
\* the first max_files; files of equal mtime sort either way.  The sets of
\* files that may be kept.
KeepChoices(fs) ==
    {K \in SUBSET fs :
        /\ Cardinality(K) = Min(MaxFiles, Cardinality(fs))
        /\ \A k \in K : \A d \in fs \ K : k.mtime >= d.mtime}

\* The directory as earlier runs left it, seen before the first write.
EarlierRuns(count) ==
    /\ rotations = 0
    /\ files = {}
    /\ count > 0
    /\ files' = OldFiles(count)
    /\ UNCHANGED <<rclock, current_file, rotations, lastGet>>
    /\ UNCHANGED otherRotationVars

\* A second passes.
RotationTick ==
    /\ rclock < MaxRotationTime
    /\ rclock' = rclock + 1
    /\ UNCHANGED <<files, current_file, rotations, lastGet>>
    /\ UNCHANGED otherRotationVars

\* The current journal file is removed from outside the server.
RemoveCurrent ==
    /\ current_file \in FileNames(files)
    /\ files' = {f \in files : f.name # current_file}
    /\ UNCHANGED <<rclock, current_file, rotations, lastGet>>
    /\ UNCHANGED otherRotationVars

\* _write_entry_sync: get_current_file(), with the rotation and the cleanup
\* it may do, then the entry appended to the file it named.
WriteEntry ==
    /\ rotations < MaxRotations
    /\ LET rotate == ShouldRotate(files, current_file)
           found == [absent |-> (current_file = NoFile
                                 \/ current_file \notin FileNames(files)),
                     size |-> IF current_file \in FileNames(files)
                              THEN FileNamed(files, current_file).size ELSE 0]
       IN  IF rotate
           THEN \E K \in KeepChoices(CreateNewFile(files, rclock)) :
                   /\ current_file' = rclock
                   /\ rotations' = rotations + 1
                   /\ files' = {IF f.name = rclock /\ f.mtime = rclock /\ f.size = 0
                                THEN [f EXCEPT !.size = EntryMb] ELSE f : f \in K}
                   /\ lastGet' = [called |-> TRUE, rotated |-> TRUE, found |-> found,
                                  overwrote |-> Overwritten(files, rclock),
                                  before |-> CreateNewFile(files, rclock),
                                  deleted |-> CreateNewFile(files, rclock) \ K]
           ELSE /\ files' = {IF f.name = current_file
                             THEN [f EXCEPT !.size = f.size + EntryMb, !.mtime = rclock]
                             ELSE f : f \in files}
                /\ lastGet' = [called |-> TRUE, rotated |-> FALSE, found |-> found,
                               overwrote |-> 0, before |-> files, deleted |-> {}]
                /\ UNCHANGED <<current_file, rotations>>
    /\ UNCHANGED rclock
    /\ UNCHANGED otherRotationVars

InitRotation ==
    /\ rclock = 0
    /\ files = {}
    /\ current_file = NoFile
    /\ rotations = 0
    /\ lastGet = [called |-> FALSE, rotated |-> FALSE,
                  found |-> [absent |-> TRUE, size |-> 0],
                  overwrote |-> 0, before |-> {}, deleted |-> {}]

NextRotation ==
    \/ \E count \in 1..MaxOldFiles : EarlierRuns(count)
    \/ RotationTick
    \/ RemoveCurrent
    \/ WriteEntry

(***************************************************************************)
(* Part IX.  The research engine's cache and batches (research/engine.py)  *)
(***************************************************************************)
\* context values of a ResearchQuery: None, a dict, and a dict holding a value
\* json.dumps cannot serialise.
Contexts == {"None", "{'lang': 'py'}", "{'obj': <object>}"}

ResearchQueries ==
    [query : {"q1", "q2"}, query_type : {"technical", "general"}, max_results : {5},
     context : Contexts, priority : {"medium", "high"}]

\* What the searches of one research call find.
SearchResults == {"<<>>", "<<r1>>"}

\* How one capability call of a research call ends: with a result, with none,
\* turned away by the rate limiter, or with an exception.
CapabilityOutcomes == {"found", "nothing", "rate_limited", "raised"}

\* _execute_context7_search and _execute_web_search: the list returned.  A
\* call the limiter turns away, and a call that raises, return [].
ExecuteSearch(outcome) == IF outcome = "found" THEN 1 ELSE 0

\* all_results of research(query) after both searches (max_results is above
\* what one search brings, so the second search always runs), sorted and cut.
FinalResults(first, second) ==
    IF ExecuteSearch(first) + ExecuteSearch(second) = 0 THEN "<<>>" ELSE "<<r1>>"

NoKey == <<"<none>">>

NoData == "<None>"

NoCacheEntry == [data |-> NoData, expires_at |-> -1]

CacheKey_WithPriority(q) ==
    IF q.context = "{'obj': <object>}" THEN NoKey
    ELSE <<q.query, q.query_type, q.max_results,
           IF q.context = "None" THEN "<absent>" ELSE q.context, q.priority>>

\* _generate_cache_key: the digest of the JSON text of query, type and
\* max_results, and of the context when it is truthy (the digest taken as
\* injective).  NoKey stands for the TypeError of json.dumps.
CacheKey(q) ==
    IF q.context = "{'obj': <object>}" THEN NoKey
    ELSE <<q.query, q.query_type, q.max_results,
           IF q.context = "None" THEN "<absent>" ELSE q.context>>

CacheKeys == {CacheKey(q) : q \in ResearchQueries} \ {NoKey}

IsExpired_AtTtl(entry, t) == t >= entry.expires_at

\* CacheEntry.is_expired
IsExpired(entry, t) == t > entry.expires_at

\* CacheEntry(results, ttl_minutes)
CacheEntry(data, t) == [data |-> data, expires_at |-> t + CacheTtlMinutes]

\* _get_from_cache(cache_key): the data returned (NoData for None), and the
\* cache and the counters it leaves behind.
GetFromCache(c, st, key, t) ==
    IF c[key] # NoCacheEntry /\ ~IsExpired(c[key], t)
    THEN [data |-> c[key].data, cache |-> c,
          stats |-> [st EXCEPT !.cache_hits = @ + 1]]
    ELSE [data |-> NoData, cache |-> [c EXCEPT ![key] = NoCacheEntry],
          stats |-> [st EXCEPT !.cache_misses = @ + 1]]

\* research(query) up to its first await: the result says whether the call
\* raised, returned from the cache, or goes on to search.
ResearchBegin(c, st, q, t) ==
    LET st1 == [st EXCEPT !.total_queries = @ + 1]
    IN  IF CacheKey(q) = NoKey
        THEN [how |-> "raised", data |-> NoData, cache |-> c, stats |-> st1]
        ELSE LET g == GetFromCache(c, st1, CacheKey(q), t)
             IN  [how |-> IF g.data = NoData THEN "search" ELSE "cached",
                  data |-> g.data, cache |-> g.cache, stats |-> g.stats]

\* The record of a lookup: the entry found, and what the lookup did.
LookupRecord(c, st, q, t) ==
    LET b == ResearchBegin(c, st, q, t)
    IN  IF b.how = "raised" THEN lastLookup
        ELSE [called |-> TRUE, query |-> q, time |-> t, before |-> c[CacheKey(q)],
              returned |-> b.data,
              hits |-> b.stats.cache_hits - st.cache_hits,
              misses |-> b.stats.cache_misses - st.cache_misses,
              left |-> b.cache[CacheKey(q)],
              degraded |-> FALSE, stored |-> NoCacheEntry]

\* The records before any call.
NoLookup ==
    [called |-> FALSE, query |-> CHOOSE q \in ResearchQueries : TRUE,
     time |-> 0, before |-> NoCacheEntry, returned |-> NoData,
     hits |-> 0, misses |-> 0, left |-> NoCacheEntry,
     degraded |-> FALSE, stored |-> NoCacheEntry]

NoBatch ==
    [called |-> FALSE, texts |-> <<"", "">>,
     raised |-> <<FALSE, FALSE>>, returns |-> <<NoData, NoData>>,
     answer |-> [text \in {} |-> NoData]]

\* Time passes between two calls.
ResearchTick ==
    /\ rtime + ResearchStep <= MaxResearchTime
    /\ rtime' = rtime + ResearchStep
    /\ UNCHANGED <<research_cache, stats, lastLookup, lastBatch>>
    /\ UNCHANGED otherResearchVars

\* One research(query) call from its start to its return; first and second
\* are how its two capability calls end when the cache has nothing to give.
\* The record keeps whether a call was turned away or raised, and the entry
\* the call stored.
Research(q, first, second) ==
    /\ stats.total_queries < MaxResearchCalls
    /\ LET b == ResearchBegin(research_cache, stats, q, rtime)
           found == FinalResults(first, second)
       IN  /\ stats' = b.stats
           /\ research_cache' = IF b.how = "search"
                       THEN [b.cache EXCEPT ![CacheKey(q)] = CacheEntry(found, rtime)]
                       ELSE b.cache
           /\ lastLookup' =
                 IF b.how = "search"
                 THEN [LookupRecord(research_cache, stats, q, rtime) EXCEPT
                          !.degraded = {first, second} \cap {"rate_limited", "raised"} # {},
                          !.stored = CacheEntry(found, rtime)]
                 ELSE LookupRecord(research_cache, stats, q, rtime)
    /\ lastBatch' = NoBatch
    /\ UNCHANGED rtime
    /\ UNCHANGED otherResearchVars

\* research_batch([q1, q2]): gather starts both research calls, each of which
\* runs to its first await before the other starts; the searches then end in
\* either order (firstDone is the call whose results are cached first), and
\* the answers are put in a dict under the query texts.
ResearchBatch(q1, q2, found1, found2, firstDone) ==
    /\ stats.total_queries + 2 <= MaxResearchCalls
    /\ LET b1 == ResearchBegin(research_cache, stats, q1, rtime)
           b2 == ResearchBegin(b1.cache, b1.stats, q2, rtime)
           ret1 == IF b1.how = "search" THEN found1 ELSE b1.data
           ret2 == IF b2.how = "search" THEN found2 ELSE b2.data
           put1(c) == IF b1.how = "search"
                      THEN [c EXCEPT ![CacheKey(q1)] = CacheEntry(found1, rtime)] ELSE c
           put2(c) == IF b2.how = "search"
                      THEN [c EXCEPT ![CacheKey(q2)] = CacheEntry(found2, rtime)] ELSE c
           ans1 == IF b1.how = "raised" THEN "<<>>" ELSE ret1
           ans2 == IF b2.how = "raised" THEN "<<>>" ELSE ret2
       IN  /\ stats' = b2.stats
           /\ research_cache' = IF firstDone = 1 THEN put2(put1(b2.cache)) ELSE put1(put2(b2.cache))
           /\ lastBatch' =
                 [called |-> TRUE, texts |-> <<q1.query, q2.query>>,
                  raised |-> <<b1.how = "raised", b2.how = "raised">>,
                  returns |-> <<ret1, ret2>>,
                  answer |-> [text \in {q1.query, q2.query} |->
                                IF text = q2.query THEN ans2 ELSE ans1]]
    /\ lastLookup' = NoLookup
    /\ UNCHANGED rtime
    /\ UNCHANGED otherResearchVars

InitResearch ==
    /\ rtime = 0
    /\ research_cache = [k \in CacheKeys |-> NoCacheEntry]
    /\ stats = [total_queries |-> 0, cache_hits |-> 0, cache_misses |-> 0]
    /\ lastLookup = NoLookup
    /\ lastBatch = NoBatch

\* The queries put in batches: with no context, and with one that cannot be
\* serialised.
BatchQueries ==
    {q \in ResearchQueries : q.priority = "medium" /\ q.context # "{'lang': 'py'}"}

NextResearch ==
    \/ ResearchTick
    \/ \E q \in ResearchQueries : \E first, second \in CapabilityOutcomes :
          Research(q, first, second)
    \/ \E q1, q2 \in BatchQueries :
          \E found1, found2 \in SearchResults :
             \* the order of the two stores shows only when they share a key
             \E firstDone \in (IF CacheKey(q1) = CacheKey(q2) THEN {1, 2} ELSE {1}) :
                ResearchBatch(q1, q2, found1, found2, firstDone)

(***************************************************************************)
(* Part X.  Containers (docker/container_manager.py, docker/controller.py, *)
(* server.py _execute_tests)                                               *)
(***************************************************************************)
\* Characters of a name: an ASCII letter, the dash, a letter outside ASCII
\* (e with an acute accent, U+00E9) and
\* the dot.
Chars == {"a", "-", "e_acute", "."}

\* The characters of [A-Za-z0-9_-] among them.
AsciiNameChars == {"a", "c", "m", "p", "-"}

\* The container and project names tried.
Names ==
    {<<>>} \cup {<<ch>> : ch \in Chars} \cup {<<"a", ch>> : ch \in Chars \ {"a"}}

\* str.isalnum() on one character: true of every letter and digit of
\* Unicode, inside ASCII or not.
IsAlnum(ch) == ch \in {"a", "c", "m", "p", "e_acute"}

IsDashOrUnderscore(ch) == ch = "-"

NameIsValid_Ascii(name) ==
    /\ SelectSeq(name, LAMBDA ch : ~IsDashOrUnderscore(ch)) # <<>>
    /\ \A i \in 1..Len(name) : name[i] \in AsciiNameChars

\* name and name.replace('-', '').replace('_', '').isalnum()
NameIsValid(name) ==
    /\ SelectSeq(name, LAMBDA ch : ~IsDashOrUnderscore(ch)) # <<>>
    /\ \A i \in 1..Len(name) : IsDashOrUnderscore(name[i]) \/ IsAlnum(name[i])

\* f"mcp-{project_name}"
EnvironmentName(project) == <<"m", "c", "p", "-">> \o project

\* create_container(name, config): how it ends, whether it reached the
\* container runtime, and the tracked names and the runtime it leaves behind.
CreateContainerResult(name, names, rt, runtimeOk, ready) ==
    IF ~NameIsValid(name) \/ name \in names
    THEN [how |-> "ValueError", called_runtime |-> FALSE, tracked |-> names, runtime |-> rt]
    ELSE IF ~runtimeOk \/ name \in rt
    THEN [how |-> "RuntimeError", called_runtime |-> TRUE, tracked |-> names, runtime |-> rt]
    \* self._containers[name] = container precedes _wait_for_container_ready,
    \* whose RuntimeError passes through the handlers unchanged.
    ELSE IF ~ready
    THEN [how |-> "RuntimeError", called_runtime |-> TRUE, tracked |-> names \cup {name},
          runtime |-> rt \cup {name}]
    ELSE [how |-> "created", called_runtime |-> TRUE, tracked |-> names \cup {name},
          runtime |-> rt \cup {name}]

\* The identifier the runtime gives the container of a name (Id[:12]).
ContainerId(name) == <<"id">> \o name

\* _get_container_info: the dictionary describing a container.
ContainerInfo(name) == [id |-> ContainerId(name), name |-> name, status |-> "running"]

\* dict.get(key): the value, or None
NoValue == <<"None">>

Get(d, key) == IF key \in DOMAIN d THEN d[key] ELSE NoValue

\* DockerController.list_containers(project_filter)
ListContainers(rt, project_filter) ==
    {info \in {ContainerInfo(name) : name \in rt} :
        Get(info, "project_name") = project_filter}

\* The records of the latest call hold while that call is the latest one.
NoCreate ==
    [called |-> FALSE, name |-> <<>>, was_tracked |-> FALSE, how |-> "<none>",
     called_runtime |-> FALSE]

NoTests ==
    [called |-> FALSE, project |-> <<>>, existed |-> FALSE, runtime_ok |-> FALSE,
     how |-> "<none>", ran_in |-> <<>>]

NoCleanup ==
    [called |-> FALSE, project |-> <<>>, failing |-> {}, before |-> {}, after |-> {}]

\* A direct create_container(name, config) call.
CreateContainer(name, runtimeOk, ready) ==
    /\ Cardinality(runtime) < MaxContainers
    /\ LET r == CreateContainerResult(name, tracked, runtime, runtimeOk, ready)
       IN  /\ tracked' = r.tracked
           /\ runtime' = r.runtime
           /\ lastCreate' = [called |-> TRUE, name |-> name, was_tracked |-> name \in tracked,
                             how |-> r.how, called_runtime |-> r.called_runtime]
    /\ lastTests' = NoTests
    /\ lastCleanup' = NoCleanup
    /\ UNCHANGED otherDockerVars

\* The execute_tests tool for a project directory with the given base name:
\* create_development_environment(project_name, ...) and, when that returns,
\* execute_command in the container it names.
ExecuteTests(project, runtimeOk, ready) ==
    /\ Cardinality(runtime) < MaxContainers \/ EnvironmentName(project) \in runtime
    /\ LET r == IF NameIsValid(project)
                THEN CreateContainerResult(EnvironmentName(project), tracked, runtime,
                                           runtimeOk, ready)
                ELSE [how |-> "ValueError", called_runtime |-> FALSE,
                      tracked |-> tracked, runtime |-> runtime]
       IN  /\ tracked' = r.tracked
           /\ runtime' = r.runtime
           /\ lastTests' = [called |-> TRUE, project |-> project,
                            existed |-> EnvironmentName(project) \in tracked,
                            runtime_ok |-> runtimeOk /\ ready,
                            how |-> IF r.how = "created" THEN "ran" ELSE "RuntimeError",
                            ran_in |-> IF r.how = "created" THEN EnvironmentName(project)
                                       ELSE <<>>]
    /\ lastCreate' = NoCreate
    /\ lastCleanup' = NoCleanup
    /\ UNCHANGED otherDockerVars

\* cleanup_project(project_name) on an initialized controller: every listed
\* container is stopped and removed; failing holds the containers whose stop
\* or remove raises.
CleanupProject(project, failing) ==
    /\ LET listed == {info.name : info \in ListContainers(runtime, project)}
           gone == listed \ failing
       IN  /\ runtime' = runtime \ gone
           \* del self._containers[container_id], when the identifier is a key
           /\ tracked' = tracked \ {ContainerId(name) : name \in gone}
           /\ lastCleanup' = [called |-> TRUE, project |-> project, failing |-> failing,
                              before |-> runtime, after |-> runtime \ gone]
    /\ lastCreate' = NoCreate
    /\ lastTests' = NoTests
    /\ UNCHANGED otherDockerVars

InitDocker ==
    /\ tracked = {}
    /\ runtime = {}
    /\ lastCreate = NoCreate
    /\ lastTests = NoTests
    /\ lastCleanup = NoCleanup

NextDocker ==
    \/ \E name \in Names : \E runtimeOk, ready \in BOOLEAN :
          CreateContainer(name, runtimeOk, ready)
    \/ \E project \in Names : \E runtimeOk, ready \in BOOLEAN :
          ExecuteTests(project, runtimeOk, ready)
    \/ \E project \in Names : \E failing \in SUBSET runtime :
          CleanupProject(project, failing)

(***************************************************************************)
(* Part XI.  Specification documents (specs/manager.py, specs/models.py)   *)
(***************************************************************************)
\* The max_versions settings a manager is constructed with.
MaxVersionsChoices == {1, 2, DefaultMaxVersions}

\* The updates tried: dictionaries from field names to new values.
Updates ==
    {[description |-> "d2"],
     [version |-> "2.0.0"],
     [history |-> <<>>],
     [description |-> "d2", history |-> <<>>],
     [bogus |-> "x"]}

\* hasattr(spec, key) for the keys tried
SpecFields == {"description", "version", "history"}

NoDoc == [exists |-> FALSE, description |-> "", version |-> "1.0.0", history |-> <<>>,
          updated_at |-> 0]

\* SpecDocument.add_change_record
AddChangeRecord(d, change, at) ==
    [d EXCEPT !.history = Append(d.history, change), !.updated_at = at]

\* f"{spec.version}_{timestamp}.json", the timestamp to the second
BackupName(d, at) == <<d.version, at>>

\* _cleanup_old_backups: sorted by modification time, all but the last
\* max_versions files are unlinked.
CleanupOldBackups(found, m) ==
    {f \in found : Cardinality({g \in found : g.mtime > f.mtime}) < m}

\* _create_version_backup: the backup file is written (a file of the same
\* name is overwritten) and the old backups are cleaned.
CreateVersionBackup(found, d, at, order, m) ==
    CleanupOldBackups({f \in found : f.name # BackupName(d, at)}
                          \cup {[name |-> BackupName(d, at), mtime |-> order]}, m)

\* save_spec(spec) with auto_backup on
SaveSpecTo(d) ==
    /\ saves' = saves + 1
    /\ backups' = CreateVersionBackup(backups, d, spec_clock, saves + 1, max_versions)
    /\ spec_doc' = d

SpecTick ==
    /\ spec_clock < MaxSpecTime
    /\ spec_clock' = spec_clock + 1
    /\ UNCHANGED <<max_versions, spec_doc, backups, saves>>
    /\ UNCHANGED otherSpecsVars

\* SpecManager(config={'max_versions': m}) on an empty storage directory
NewSpecManager(m) ==
    /\ ~spec_doc.exists
    /\ max_versions' = m
    /\ UNCHANGED <<spec_clock, spec_doc, backups, saves>>
    /\ UNCHANGED otherSpecsVars

CreateSpec ==
    /\ ~spec_doc.exists
    /\ SaveSpecTo(AddChangeRecord([NoDoc EXCEPT !.exists = TRUE, !.updated_at = spec_clock],
                                  [change_type |-> "created", fields |-> {}], spec_clock))
    /\ UNCHANGED <<spec_clock, max_versions>>
    /\ UNCHANGED otherSpecsVars

\* setattr(spec, key, value) for every key of updates the document has
ApplyUpdates(d, updates) ==
    [field \in DOMAIN d |->
        IF field \in DOMAIN updates /\ field \in SpecFields THEN updates[field]
        ELSE d[field]]

UpdateSpec(updates) ==
    /\ spec_doc.exists
    /\ saves < MaxSaves
    /\ LET recorded == AddChangeRecord(spec_doc, [change_type |-> "modified",
                                                  fields |-> DOMAIN updates], spec_clock)
           updated == [ApplyUpdates(recorded, updates) EXCEPT !.updated_at = spec_clock]
       IN  SaveSpecTo(updated)
    /\ UNCHANGED <<spec_clock, max_versions>>
    /\ UNCHANGED otherSpecsVars

\* save_spec(spec) called on the document as it is
SaveSpec ==
    /\ spec_doc.exists
    /\ saves < MaxSaves
    /\ SaveSpecTo(spec_doc)
    /\ UNCHANGED <<spec_clock, max_versions>>
    /\ UNCHANGED otherSpecsVars

InitSpecs ==
    /\ spec_clock = 0
    /\ max_versions = DefaultMaxVersions
    /\ spec_doc = NoDoc
    /\ backups = {}
    /\ saves = 0

NextSpecs ==
    \/ SpecTick
    \/ \E m \in MaxVersionsChoices : NewSpecManager(m)
    \/ CreateSpec
    \/ \E updates \in Updates : UpdateSpec(updates)
    \/ SaveSpec

(***************************************************************************)
(* Part XII.  Component life cycle of start() and stop() (server.py)       *)
(***************************************************************************)
Components == {InitStages[i] : i \in 1..Len(InitStages)}

\* The stages with a second step after the constructor: initialize() of the
\* router and of the controller, start() of the state manager.
TwoStepStages == {"llm_router", "docker_controller", "state_manager"}

\* Where _initialize_components fails: nowhere (stage 0), in the constructor
\* of a stage (the attribute stays None) or in its second step (the attribute
\* is set).
NoFailure == [stage |-> 0, step |-> "<none>"]

FailPoints ==
    {NoFailure}
        \cup {[stage |-> i, step |-> "constructor"] : i \in 1..Len(InitStages)}
        \cup {[stage |-> StageIndex(c), step |-> "second"] : c \in TwoStepStages}

\* The components whose attribute is set when the failure strikes.
ConstructedAt(failPoint) ==
    IF failPoint = NoFailure THEN Components
    ELSE {InitStages[i] : i \in 1..(failPoint.stage - 1)}
            \cup (IF failPoint.step = "second" THEN {InitStages[failPoint.stage]} ELSE {})

\* _cleanup_components cleans these attributes, in this order, inside one
\* try block.
CleanupOrder == <<"docker_controller", "state_manager", "llm_router", "research_engine">>

\* The cleanups that can raise: LLMRouter.cleanup awaits every provider's
\* session.close() unguarded, and so may the state manager's stop();
\* DockerController.cleanup catches its own failures and
\* cleanup_expired_cache only deletes dictionary entries.
CanRaise == {"state_manager", "llm_router"}

RECURSIVE CleanupFrom(_, _, _)
CleanupFrom(order, comps, raising) ==
    IF order = <<>> THEN comps
    ELSE IF comps[Head(order)] = "none" THEN CleanupFrom(Tail(order), comps, raising)
    ELSE IF Head(order) \in raising THEN comps
    ELSE CleanupFrom(Tail(order), [comps EXCEPT ![Head(order)] = "cleaned"], raising)

\* _cleanup_components, raising holding the components whose cleanup raises
CleanupComponents(comps, raising) == CleanupFrom(CleanupOrder, comps, raising)

NoStart == [called |-> FALSE, failed |-> FALSE, constructed |-> {}, raising |-> {}]

\* start(): _initialize_components sets the attributes up to the failure
\* point; on a failure it runs _cleanup_components and re-raises.
InitializeComponents(failPoint, raising) ==
    /\ starts < MaxStarts
    /\ starts' = starts + 1
    /\ LET built == [c \in Components |->
                        IF c \in ConstructedAt(failPoint) THEN "constructed"
                        ELSE components[c]]
       IN  components' = IF failPoint = NoFailure THEN built
                         ELSE CleanupComponents(built, raising)
    /\ lastStart' = [called |-> TRUE, failed |-> failPoint # NoFailure,
                     constructed |-> ConstructedAt(failPoint), raising |-> raising]
    /\ UNCHANGED otherStartupVars

\* stop(): _cleanup_components
StopComponents(raising) ==
    /\ starts > 0
    /\ components' = CleanupComponents(components, raising)
    /\ components' # components
    /\ UNCHANGED <<starts, lastStart>>
    /\ UNCHANGED otherStartupVars

InitStartup ==
    /\ components = [c \in Components |-> "none"]
    /\ starts = 0
    /\ lastStart = NoStart

NextStartup ==
    \/ \E failPoint \in FailPoints : \E raising \in SUBSET CanRaise :
          InitializeComponents(failPoint, raising)
    \/ \E raising \in SUBSET CanRaise : StopComponents(raising)

(***************************************************************************)
(* Part XIII.  Path validation (security.py, InputValidator.validate_path) *)
(***************************************************************************)
\* A path is a list of segments, absolute or relative to the working
\* directory.
Segments == {"a", "b", ".."}

RECURSIVE SegmentLists(_)
SegmentLists(n) ==
    IF n = 0 THEN {<<>>}
    ELSE LET shorter == SegmentLists(n - 1)
         IN  shorter \cup {Append(w, seg) : w \in {v \in shorter : Len(v) = n - 1},
                                            seg \in Segments}

PathInputs == [absolute : BOOLEAN, segs : SegmentLists(MaxPathLen) \ {<<>>}]

\* base_path: None, or a directory
NoBase == [given |-> FALSE, absolute |-> TRUE, segs |-> <<>>]

BaseInputs ==
    {NoBase} \cup {[given |-> TRUE, absolute |-> TRUE, segs |-> w] : w \in {<<"a">>, <<"a", "b">>, <<"b">>}}

\* os.getcwd()
Cwd == <<"a">>

\* The segments with every ".." applied to what precedes it; ".." at the
\* root stays at the root.
RECURSIVE Normalize(_, _)
Normalize(done, rest) ==
    IF rest = <<>> THEN done
    ELSE IF Head(rest) = ".."
    THEN Normalize(IF done = <<>> THEN <<>> ELSE SubSeq(done, 1, Len(done) - 1), Tail(rest))
    ELSE Normalize(Append(done, Head(rest)), Tail(rest))

\* Path(path).resolve(): absolute (a relative path is taken from the working
\* directory) and normalized.
Resolve(path) ==
    [absolute |-> TRUE,
     segs |-> Normalize(<<>>, IF path.absolute THEN path.segs ELSE Cwd \o path.segs)]

HasTraversal(segs) == \E i \in 1..Len(segs) : segs[i] = ".."

\* path_obj.relative_to(base_obj) succeeds
Beneath(path_obj, base_obj) ==
    /\ Len(base_obj.segs) <= Len(path_obj.segs)
    /\ SubSeq(path_obj.segs, 1, Len(base_obj.segs)) = base_obj.segs

\* validate_path(path, base_path): raises SecurityError or returns the
\* resolved path.
ValidatePath(path, base) ==
    LET path_obj == Resolve(path)
    IN  IF HasTraversal(path_obj.segs) \/ path_obj.absolute
        THEN [raised |-> TRUE, path |-> path_obj]
        ELSE IF base.given /\ ~Beneath(path_obj, Resolve(base))
        THEN [raised |-> TRUE, path |-> path_obj]
        ELSE [raised |-> FALSE, path |-> path_obj]

NoValidate ==
    [called |-> FALSE, path |-> [absolute |-> FALSE, segs |-> <<>>], base |-> NoBase,
     raised |-> FALSE, returned |-> [absolute |-> FALSE, segs |-> <<>>]]

ValidatePathCall(path, base) ==
    /\ LET r == ValidatePath(path, base)
       IN  lastValidate' = [called |-> TRUE, path |-> path, base |-> base,
                            raised |-> r.raised, returned |-> r.path]
    /\ UNCHANGED otherPathVars

InitPaths == lastValidate = NoValidate

NextPaths == \E path \in PathInputs : \E base \in BaseInputs : ValidatePathCall(path, base)

(***************************************************************************)
(* Part XIV.  Configuration round trip (config.py)                         *)
(***************************************************************************)
\* LLMProvider members and their values
ProviderMembers == {"LLMProvider.OPENAI", "LLMProvider.MOONSHOT"}

ProviderValue(member) == IF member = "LLMProvider.OPENAI" THEN "openai" ELSE "moonshot"

\* LLMProvider(value)
ProviderOf(value) == IF value = "openai" THEN "LLMProvider.OPENAI" ELSE "LLMProvider.MOONSHOT"

ModelConfigs == [provider : ProviderMembers, api_key : {"k"}, max_tokens : {4000}]

\* The defaults of the dataclasses
DefaultDocker == [memory_limit |-> "512m", timeout |-> 300]

DefaultResearch == [cache_ttl |-> 3600, rate_limit_max_calls |-> 100]

DefaultJournal == [log_level |-> "INFO"]

DefaultState == [state_directory |-> "state", auto_recovery |-> TRUE]

DefaultConfig ==
    [llm_providers |-> <<>>, docker_settings |-> DefaultDocker,
     research_settings |-> DefaultResearch, journal_settings |-> DefaultJournal,
     state_settings |-> DefaultState, server_port |-> 8000, debug |-> FALSE]

\* The configurations tried
ConfigInputs ==
    [llm_providers : {<<>>} \cup {<<m>> : m \in ModelConfigs},
     docker_settings : [memory_limit : {"512m"}, timeout : {300, 60}],
     research_settings : [cache_ttl : {3600, 60}, rate_limit_max_calls : {100, 5}],
     journal_settings : [log_level : {"INFO", "DEBUG"}],
     state_settings : [state_directory : {"state"}, auto_recovery : BOOLEAN],
     server_port : {8000, 9000},
     debug : BOOLEAN]

\* to_dict: the sections written, provider members as their values; the
\* research section carries four of the settings (here cache_ttl).
ToDict(c) ==
    [llm_providers |-> [i \in 1..Len(c.llm_providers) |->
                          [provider |-> ProviderValue(c.llm_providers[i].provider),
                           api_key |-> c.llm_providers[i].api_key,
                           max_tokens |-> c.llm_providers[i].max_tokens]],
     docker_settings |-> [memory_limit |-> c.docker_settings.memory_limit,
                          timeout |-> c.docker_settings.timeout],
     research_settings |-> [cache_ttl |-> c.research_settings.cache_ttl],
     journal_settings |-> [log_level |-> c.journal_settings.log_level],
     state_settings |-> [state_directory |-> c.state_settings.state_directory,
                         auto_recovery |-> c.state_settings.auto_recovery],
     server_port |-> c.server_port,
     debug |-> c.debug]

\* The keys the last loop of _from_dict leaves alone
SectionKeys == {"llm_providers", "docker_settings", "research_settings",
                "journal_settings", "state_settings"}

\* _from_dict: a default configuration, the providers and the Docker section
\* parsed, every other key that is an attribute and no section set as it is.
FromDict(data) ==
    [key \in DOMAIN DefaultConfig |->
        IF key = "llm_providers" /\ key \in DOMAIN data
        THEN [i \in 1..Len(data.llm_providers) |->
                 [provider |-> ProviderOf(data.llm_providers[i].provider),
                  api_key |-> data.llm_providers[i].api_key,
                  max_tokens |-> data.llm_providers[i].max_tokens]]
        ELSE IF key = "docker_settings" /\ key \in DOMAIN data
        THEN [memory_limit |-> data.docker_settings.memory_limit,
              timeout |-> data.docker_settings.timeout]
        ELSE IF key \in DOMAIN data /\ key \notin SectionKeys
        THEN data[key]
        ELSE DefaultConfig[key]]

NoRoundTrip == [called |-> FALSE, original |-> DefaultConfig, restored |-> DefaultConfig]

\* ServerConfig._from_dict(config.to_dict())
RoundTrip(c) ==
    /\ lastConfig' = [called |-> TRUE, original |-> c, restored |-> FromDict(ToDict(c))]
    /\ UNCHANGED otherConfigVars

InitConfig == lastConfig = NoRoundTrip

NextConfig == \E c \in ConfigInputs : RoundTrip(c)

(***************************************************************************)
(* Part XV.  Command sanitizing (security.py,                              *)
(* InputValidator.sanitize_command)                                        *)
(***************************************************************************)
\* A command is a string, taken character by character.  The characters
\* tried: two letters, a capital, a character of the dangerous list, a blank.
CommandChars == {"n", "c", "N", ";", " "}

RECURSIVE Strings(_)
Strings(n) ==
    IF n = 0 THEN {<<>>}
    ELSE LET shorter == Strings(n - 1)
         IN  shorter \cup {Append(w, ch) : w \in {v \in shorter : Len(v) = n - 1},
                                           ch \in CommandChars}

CommandInputs == Strings(MaxCommandLen)

\* BLACKLISTED_COMMANDS
BlacklistedCommands ==
    {<<"r", "m", " ", "-", "r", "f", " ", "/">>,
     <<"s", "u", "d", "o">>,
     <<"c", "h", "m", "o", "d", " ", "7", "7", "7">>,
     <<"w", "g", "e", "t">>,
     <<"c", "u", "r", "l">>,
     <<"n", "c">>,
     <<"n", "e", "t", "c", "a", "t">>,
     <<"p", "y", "t", "h", "o", "n", " ", "-", "c">>,
     <<"e", "x", "e", "c", "(">>,
     <<"e", "v", "a", "l", "(">>,
     <<"i", "m", "p", "o", "r", "t", " ", "o", "s">>,
     <<"i", "m", "p", "o", "r", "t", " ", "s", "u", "b", "p", "r", "o", "c", "e", "s", "s">>}

\* dangerous_chars (the backquote is written out)
DangerousChars == {"&", "|", ";", "$", "backquote", ">", "<"}

\* str.lower() of the characters tried
LowerChar(ch) == IF ch = "N" THEN "n" ELSE ch

Lower(str) == [i \in 1..Len(str) |-> LowerChar(str[i])]

\* str.strip(): the blanks at both ends are dropped.
RECURSIVE Strip(_)
Strip(str) ==
    IF str = <<>> THEN <<>>
    ELSE IF Head(str) = " " THEN Strip(Tail(str))
    ELSE IF str[Len(str)] = " " THEN Strip(SubSeq(str, 1, Len(str) - 1))
    ELSE str

\* "term in str"
Contains(str, term) ==
    \E i \in 1..(Len(str) - Len(term) + 1) : SubSeq(str, i, i + Len(term) - 1) = term

\* "blacklisted.lower() in command.lower()" for some blacklisted term
HasBlacklisted(command) ==
    \E blacklisted \in BlacklistedCommands : Contains(Lower(command), Lower(blacklisted))

\* command.replace(char, '') for every dangerous character
RemoveDangerous(command) == SelectSeq(command, LAMBDA ch : ch \notin DangerousChars)

\* sanitize_command(command) for a string: SecurityError, or the command
\* returned.  The blacklist is tested on the stripped command, before the
\* dangerous characters are taken out.
SanitizeCommand(command) ==
    LET stripped == Strip(command)
    IN  IF HasBlacklisted(stripped)
        THEN [raised |-> TRUE, command |-> <<>>]
        ELSE [raised |-> FALSE, command |-> RemoveDangerous(stripped)]

NoSanitize == [called |-> FALSE, command |-> <<>>, raised |-> FALSE, returned |-> <<>>]

SanitizeCommandCall(command) ==
    /\ LET r == SanitizeCommand(command)
       IN  lastSanitize' = [called |-> TRUE, command |-> command, raised |-> r.raised,
                            returned |-> r.command]
    /\ UNCHANGED otherSanitizeVars

InitSanitize == lastSanitize = NoSanitize

NextSanitize == \E command \in CommandInputs : SanitizeCommandCall(command)

(***************************************************************************)
(* Part XVI.  Stored specification documents (specs/manager.py save_spec   *)
(* and load_spec, specs/models.py to_dict and from_dict)                   *)
(***************************************************************************)
\* parent_id: None, or an id
ParentIds == {"None", "p1"}

\* The documents saved: their parent and children links, their timestamps (in
\* seconds), their change history and their validation results.
StoredDocuments ==
    {d \in [name : {"n1"}, parent_id : ParentIds, children_ids : {<<>>, <<"c1">>},
            created_at : 0..MaxStoredTime, updated_at : 0..MaxStoredTime,
            history : {<<>>, <<"h1">>}, validation_results : {<<>>, <<"v1">>}] :
        d.created_at <= d.updated_at}

\* datetime.isoformat()
Isoformat(t) == <<"iso", t>>

\* SpecDocument.to_dict: the keys written.  parent_id, children_ids and
\* validation_results are not among them.
SpecToDict(d) ==
    [name |-> d.name, created_at |-> Isoformat(d.created_at),
     updated_at |-> Isoformat(d.updated_at), history |-> d.history]

\* SpecDocument.from_dict(data) at second at: cls(...) is given neither
\* created_at nor updated_at, which take datetime.now(), nor parent_id,
\* children_ids or validation_results, which take their defaults; the
\* history is added record by record (add_change_record sets updated_at to
\* datetime.now() again).
SpecFromDict(data, at) ==
    [name |-> data.name, parent_id |-> "None", children_ids |-> <<>>,
     created_at |-> at, updated_at |-> at,
     history |-> data.history, validation_results |-> <<>>]

\* load_spec(spec_id) after save_spec(d): the document of the cache when the
\* manager that saved it is asked, else the document read from the file
\* that json.dump(spec.to_dict()) wrote.
LoadSpec(d, cached, at) == IF cached THEN d ELSE SpecFromDict(SpecToDict(d), at)

NoLoad ==
    [called |-> FALSE, cached |-> FALSE, time |-> 0,
     saved |-> CHOOSE d \in StoredDocuments : TRUE,
     loaded |-> CHOOSE d \in StoredDocuments : TRUE]

\* save_spec(d), then load_spec(d.id) at second at, by the same manager
\* (cached) or by a manager constructed on the same storage directory.
SaveAndLoad(d, cached, at) ==
    /\ d.updated_at <= at
    /\ lastLoad' = [called |-> TRUE, cached |-> cached, time |-> at, saved |-> d,
                    loaded |-> LoadSpec(d, cached, at)]
    /\ UNCHANGED otherStoredVars

InitStored == lastLoad = NoLoad

NextStored ==
    \E d \in StoredDocuments : \E cached \in BOOLEAN : \E at \in 0..MaxStoredTime :
       SaveAndLoad(d, cached, at)

Init ==
    /\ InitServer /\ InitRouter /\ InitRetry /\ InitConversation /\ InitStream
    /\ InitLimiter /\ InitJournal /\ InitRotation
    /\ InitResearch /\ InitDocker /\ InitSpecs /\ InitStartup
    /\ InitPaths /\ InitConfig
    /\ InitSanitize /\ InitStored

Spec == Init /\ [][NextServer]_vars

SpecRouter == Init /\ [][NextRouter]_vars

SpecRetry == Init /\ [][NextRetry]_vars

SpecConversation == Init /\ [][NextConversation]_vars

SpecStream == Init /\ [][NextStream]_vars

SpecLimiter == Init /\ [][NextLimiter]_vars

SpecJournal == Init /\ [][NextJournal]_vars

SpecJournaled == Init /\ [][NextJournaled]_vars

SpecStopJournaled == Init /\ [][NextStopJournaled]_vars

SpecRotation == Init /\ [][NextRotation]_vars

SpecResearch == Init /\ [][NextResearch]_vars

SpecDocker == Init /\ [][NextDocker]_vars

SpecSpecs == Init /\ [][NextSpecs]_vars

SpecStartup == Init /\ [][NextStartup]_vars

SpecPaths == Init /\ [][NextPaths]_vars

SpecConfig == Init /\ [][NextConfig]_vars

SpecSanitize == Init /\ [][NextSanitize]_vars

SpecStored == Init /\ [][NextStored]_vars

\* The event loop resumes a runnable generate call, and the provider's HTTP
\* call returns or raises (the adapters' sessions carry a request timeout).
SpecRetryFair ==
    /\ SpecRetry
    /\ WF_vars(GenAttempt)
    /\ WF_vars(\E reply \in ProviderReplies : ProviderReply(reply))

(***************************************************************************)
(* Claims about the protocol server (checked under Spec)                   *)
(***************************************************************************)
IsToolsCall(req) == req.kind = "dict" /\ req.method = "tools/call"

TextCarries(text, msg) == \E i \in 1..Len(text) : text[i] = msg

\* The latest call reached a registered tool whose handler raised.
ToolHandlerRaised ==
    /\ IsToolsCall(lastRequest)
    /\ lastRequest.params = "dict"
    /\ lastRequest.name \in lastRegistry
    /\ ~lastOutcome.ok

\* C1: a tools/call request naming a registered tool whose handler raises is
\* answered with a tool response (content list, isError true) whose text
\* carries the error message; nothing is raised to the caller and the answer
\* is not an error envelope.
C1_ToolFailureIsErrorContent ==
    ToolHandlerRaised =>
        /\ raised = NoException
        /\ response.hasContent
        /\ response.isError
        /\ ~response.hasError
        /\ TextCarries(response.text, lastOutcome.msg)

C1_Witness ==
    /\ ToolHandlerRaised
    /\ lastRequest.name = "generate_code"
    /\ lastOutcome.msg = "'requirements'"
    /\ response.isError

\* The latest call was a tools/call whose params.name is not registered
\* (a name the registry lacks, or a params dict with no name at all).
UnknownToolCalled ==
    /\ IsToolsCall(lastRequest)
    /\ lastRequest.params \in {"dict", "absent"}
    /\ lastRequest.name # "<unhashable>"
    /\ lastRequest.name \notin lastRegistry

\* C2: a tools/call request whose params.name is not in the registry is
\* answered, without raising, in the tool-response shape: a content list with
\* an explanatory text item and isError true.
C2_UnknownToolIsErrorContent ==
    UnknownToolCalled =>
        /\ raised = NoException
        /\ response.hasContent
        /\ response.isError
        /\ Len(response.text) > 0

DispatchFailed(req) ==
    \/ req.kind = "nondict"
    \/ /\ IsToolsCall(req)
       /\ (req.params = "nondict" \/ req.name = "<unhashable>")

\* C4: a failure raised during dispatch outside a tool handler is journaled
\* as an error and answered with an error envelope of code -32603 carrying
\* the failure's message; handle_request never raises, whatever the request.
C4_DispatchFailureIsInternalError ==
    /\ raised = NoException
    /\ DispatchFailed(lastRequest) =>
          /\ response.hasError
          /\ response.code = -32603
          /\ Len(response.text) = 2
          /\ journal_manager =>
                /\ Len(entries_cache) > 0
                /\ entries_cache[Len(entries_cache)].entry_type = "error"
                /\ entries_cache[Len(entries_cache)].detail = response.text[2]

(***************************************************************************)
(* Claims about the LLM router (checked under SpecRouter)                  *)
(***************************************************************************)
Last(seq) == seq[Len(seq)]

Available == GetAvailableProviders(provider_instances, health_status, now)

\* The first provider of the call's fallback list that has an instance.
ConfiguredFallback(primary) ==
    FirstInitialized(GetFallbackProviders(routing_rules, primary),
                     provider_instances, NoProvider)

\* A finished generate call in which every request sent was answered with a
\* retryable provider error.
FailedRetryablyThroughout ==
    /\ genResult.status = "raised"
    /\ Len(replies) >= 1
    /\ \A i \in 1..Len(replies) : replies[i] = "rate_limit"

\* C5: with the default routing rules, when the primary provider fails with a
\* retryable error on every attempt, the configured fallback provider has been
\* attempted at least once before the call gives up, and the error raised
\* names the last provider attempted.
C5_FallbackAttempted ==
    (/\ FailedRetryablyThroughout
     /\ routing_rules = DefaultRoutingRules
     /\ ConfiguredFallback(sent[1]) # NoProvider) =>
        /\ \E i \in 1..Len(sent) : sent[i] = ConfiguredFallback(sent[1])
        /\ genResult.error.provider = Last(sent)

\* C6: generate stops at the first non-retryable provider error or when the
\* retries are used up, and raises the last provider error it met, with that
\* error's type and provider.
C6_LastErrorSurfaces ==
    (/\ genResult.status = "raised"
     /\ Len(replies) >= 1
     /\ Last(replies) = "rate_limit") =>
        /\ genResult.error.type = "LLMError"
        /\ genResult.error.error_type = Last(replies)
        /\ genResult.error.provider = Last(sent)
        /\ (genResult.attempts = MaxRetries + 1 \/ ~genResult.error.retryable)

\* C7: a health record is unhealthy exactly when its three (or more) most
\* recent recorded outcomes are failures in a row; a recorded success leaves
\* the failure counter at zero and the record healthy.
C7_UnhealthyAfterThreeFailures ==
    \A p \in Providers :
        /\ ~health_status[p].is_healthy <=> streak[p] = 3
        /\ streak[p] = 0 =>
              (health_status[p].failure_count = 0 /\ health_status[p].is_healthy)

\* A success recorded on a record that has failed before: healthy again,
\* counter at zero, while the other provider sits at its third failure.
C7_Witness ==
    \E p, q \in Providers :
        /\ health_status[p].last_failure # NoTime
        /\ streak[p] = 0
        /\ health_status[p].is_healthy
        /\ health_status[q].failure_count = 3
        /\ ~health_status[q].is_healthy

SinceLastFailure(p) == now - health_status[p].last_failure

Selected(p) == selection.called /\ selection.result = p

\* C8 as stated: an unhealthy provider is not eligible, and never selected,
\* until 60 seconds have passed since its last recorded failure, and it is
\* eligible once 60 seconds have passed.
C8_EligibleOnceSixtySeconds ==
    \A p \in Providers : ~health_status[p].is_healthy =>
        /\ SinceLastFailure(p) < 60 =>
              (~ShouldRetry(health_status[p], now) /\ p \notin Available /\ ~Selected(p))
        /\ SinceLastFailure(p) >= 60 => ShouldRetry(health_status[p], now)

\* C8 (amended): an unhealthy provider is not eligible, and never selected,
\* while at most 60 seconds have passed since its last recorded failure; it
\* is eligible once more than 60 seconds have passed.
C8_EligibleAfterSixtySeconds ==
    \A p \in Providers : ~health_status[p].is_healthy =>
        /\ SinceLastFailure(p) <= 60 =>
              (~ShouldRetry(health_status[p], now) /\ p \notin Available /\ ~Selected(p))
        /\ SinceLastFailure(p) > 60 => ShouldRetry(health_status[p], now)

\* An unhealthy provider picked by select_provider after the waiting time.
C8_Witness ==
    \E p \in Providers :
        /\ ~health_status[p].is_healthy
        /\ SinceLastFailure(p) > 60
        /\ Selected(p)

\* C9: when no provider is available, select_provider returns nothing, and a
\* generate call made in that state raises without sending a request to any
\* provider.
C9_NoProviderNoRequest ==
    /\ (selection.called /\ Available = {}) => selection.result = NoProvider
    /\ (pc # "idle" /\ gen.noneAvailable) => sent = <<>>
    /\ genResult.noneAvailable => (genResult.status = "raised" /\ sent = <<>>)

\* Providers a routing rule names that are available and whose rate limiter
\* admits a request now.
Admitting ==
    {p \in Available :
        /\ \E i \in 1..Len(routing_rules) : routing_rules[i].provider = p
        /\ IsAllowed(rate_limiters[p], now)}

\* The lowest priority number among the rules naming p.
PriorityOf(p) ==
    LET ps == {routing_rules[i].priority : i \in {j \in 1..Len(routing_rules) :
                                                    routing_rules[j].provider = p}}
    IN  CHOOSE n \in ps : \A m \in ps : n <= m

PreferredAvailable == selection.preferred # NoProvider /\ selection.preferred \in Available

\* C10: select_provider(preferred) returns the preferred provider when one is
\* given and available; otherwise the provider of the lowest-priority-number
\* rule that is available and admitted by its rate limiter; and never a
\* provider that is not available.
C10_SelectionFollowsRules ==
    selection.called =>
        /\ selection.result \in Available \cup {NoProvider}
        /\ PreferredAvailable => selection.result = selection.preferred
        /\ (~PreferredAvailable /\ Admitting # {}) =>
              /\ selection.result \in Admitting
              /\ \A q \in Admitting : PriorityOf(selection.result) <= PriorityOf(q)

\* The first rule's provider is available but rate limited, so the second
\* rule's provider is returned.
C10_Witness ==
    /\ selection.called
    /\ selection.preferred = NoProvider
    /\ "openai" \in Available
    /\ ~IsAllowed(rate_limiters["openai"], now)
    /\ selection.result = "moonshot"

(***************************************************************************)
(* Claims about the retry configuration (checked under SpecRetry)          *)
(***************************************************************************)
\* At most max_retries + 1 provider attempts per generate call, and the wait
\* computed for attempt k is min(base_delay * backoff_factor^k, max_delay).
BoundedAttemptsAndDelay ==
    /\ Len(sent) <= retry_config.max_retries + 1
    /\ genResult.attempts <= retry_config.max_retries + 1
    /\ lastDelay.computed =>
          LET power == retry_config.base_delay
                         * (retry_config.backoff_factor ^ lastDelay.attempt)
          IN  /\ lastDelay.delay <= retry_config.max_delay
              /\ lastDelay.delay <= power
              /\ lastDelay.delay \in {power, retry_config.max_delay}

C12_HistoryExtendedByThisCall ==
    lastUpdate.happened =>
        lastUpdate.after =
            lastUpdate.before \o SelectSeq(lastUpdate.own, IsUser)
                              \o <<lastUpdate.reply>>

\* The call numbers of the assistant replies of a history, in order.
RECURSIVE AssistantCalls(_)
AssistantCalls(history) ==
    IF history = <<>> THEN <<>>
    ELSE IF Head(history).role = "assistant"
         THEN <<Head(history).call>> \o AssistantCalls(Tail(history))
         ELSE AssistantCalls(Tail(history))

\* The numbers of the calls that completed for conv, in completion order.
RECURSIVE CompletedFor(_, _)
CompletedFor(order, conv) ==
    IF order = <<>> THEN <<>>
    ELSE IF Head(order).conversation_id = conv
         THEN <<Head(order).call>> \o CompletedFor(Tail(order), conv)
         ELSE CompletedFor(Tail(order), conv)

IsPrefix(a, b) == Len(a) <= Len(b) /\ SubSeq(b, 1, Len(a)) = a

\* C13: for generate calls sharing a conversation id, messages are appended
\* to the history in the order in which the calls complete, also when the
\* calls overlap: every update only adds at the end, and the replies appear
\* in completion order.
C13_AppendedInCompletionOrder ==
    /\ \A conv \in Conversations :
          AssistantCalls(conversation_contexts[conv])
              = CompletedFor(completionOrder, conv)
    /\ lastUpdate.happened =>
          /\ IsPrefix(lastUpdate.before, lastUpdate.after)
          /\ lastUpdate.after[Len(lastUpdate.after)] = lastUpdate.reply

\* Two calls of one conversation overlapped: the one started later returned
\* first, and its reply stands before the other's in the history.
C13_Witness ==
    \E conv \in Conversations :
        LET done == CompletedFor(completionOrder, conv) IN
        /\ Len(done) >= 2
        /\ done[1] > done[2]
        /\ AssistantCalls(conversation_contexts[conv]) = done

(***************************************************************************)
(* Claims about streaming generation (checked under SpecStream)            *)
(***************************************************************************)
\* C14: when a generate_stream call fails unrecoverably, the stream ends
\* with exactly one final chunk, which carries the error, and no failure is
\* raised to the consumer of the stream.
C14_StreamEndsWithErrorChunk ==
    streamResult.failed =>
        /\ streamResult.status = "ended"
        /\ Len(chunks) >= 1
        /\ chunks[Len(chunks)] = "error_final"
        /\ \A i \in 1..(Len(chunks) - 1) : chunks[i] = "content"

(***************************************************************************)
(* Claims about the rate limiters (checked under SpecLimiter)              *)
(***************************************************************************)
\* The limit and the window of the limiter a key belongs to.
MaxOf(k) ==
    IF k \in Providers THEN MaxRequestsPerWindow
    ELSE IF k = ResearchKey THEN ResearchMaxCalls
    ELSE RequestsPerMinute

WindowOf(k) ==
    IF k \in Providers THEN WindowSeconds
    ELSE IF k = ResearchKey THEN ResearchWindowSeconds
    ELSE WindowSize

\* The admitted requests of key k, among the first n, inside the window that
\* trails instant t.
InWindow(k, n, t) ==
    {j \in 1..n : admitted[k][j] <= t /\ t - admitted[k][j] < WindowOf(k)}

ByWorker == {i \in 1..Len(written) : written[i].by = "worker"}

EntriesIn(file) == {file[i].entry : i \in 1..Len(file)}

TimesIn(file, e) == Cardinality({i \in 1..Len(file) : file[i].entry = e})

\* C16: the single worker writes the journal entries to the file in exactly
\* the order in which log_entry was called for them: an entry written by the
\* worker comes after every earlier-logged entry in the file, and the worker
\* skips no entry but one whose write failed.
C16_WorkerWritesInLogOrder ==
    /\ \A i, j \in ByWorker : i < j => written[i].entry < written[j].entry
    /\ \A j \in ByWorker : \A e \in 1..(written[j].entry - 1) :
          \/ e \in error_log
          \/ \E i \in 1..(j - 1) : written[i].entry = e
    /\ ~shutdown.timed_out =>
          \A i, j \in 1..Len(written) : i < j => written[i].entry < written[j].entry

\* The worker has written all the entries, the last one logged while the
\* worker was already writing.
C16_Witness ==
    /\ Len(written) = MaxEntries
    /\ ByWorker = 1..MaxEntries
    /\ \A i \in 1..MaxEntries : written[i].entry = i

\* C17: shutdown, with its drain of the queue and its join of the worker
\* bounded by five seconds, leaves every entry that was pending when it began
\* (and whose write does not fail) in the file exactly once by the time
\* cleanup() returns.
C17_PendingWrittenByReturn ==
    cpc = "returned" =>
        \A e \in shutdown.pending \ unwritable :
            TimesIn(shutdown.written_at_return, e) = 1

\* C18: a failure while writing one entry is recorded in the log and does not
\* stop the worker loop: the worker only exits on shutdown, every entry whose
\* write failed has its error record, and once the queue is empty and the
\* worker's hands are free every other entry logged is in the file, once.
C18_WriteFailureIsContained ==
    /\ worker.at = "exited" => stop_event
    /\ \A e \in 1..log_count :
          e \in error_log => e \in unwritable /\ e \notin EntriesIn(written)
    /\ Pending = {} =>
          \A e \in 1..log_count :
              IF e \in unwritable THEN e \in error_log ELSE TimesIn(written, e) = 1

\* The write of the first entry failed and the worker, still running with no
\* shutdown in sight, has written the entry queued after it.
C18_Witness ==
    /\ 1 \in error_log
    /\ ~stop_event
    /\ worker.at # "exited"
    /\ written = <<[entry |-> 2, by |-> "worker"]>>

C21_CacheHitWithinTtl ==
    /\ \A q1, q2 \in ResearchQueries :
          (/\ q1.query = q2.query /\ q1.query_type = q2.query_type
           /\ q1.max_results = q2.max_results /\ q1.context = q2.context)
          => CacheKey(q1) = CacheKey(q2)
    /\ lastLookup.called =>
          LET live == /\ lastLookup.before # NoCacheEntry
                      /\ lastLookup.time <= lastLookup.before.expires_at
          IN  IF live
              THEN /\ lastLookup.returned = lastLookup.before.data
                   /\ lastLookup.hits = 1 /\ lastLookup.misses = 0
                   /\ lastLookup.left = lastLookup.before
              ELSE /\ lastLookup.returned = NoData
                   /\ lastLookup.hits = 0 /\ lastLookup.misses = 1
                   /\ lastLookup.left = NoCacheEntry

\* A query that differs from the cached one in its priority only is answered
\* from the cache at the very minute the TTL ends.
C21_Witness ==
    /\ lastLookup.called
    /\ lastLookup.query.priority = "high"
    /\ lastLookup.before = [data |-> "<<r1>>", expires_at |-> CacheTtlMinutes]
    /\ lastLookup.time = CacheTtlMinutes
    /\ lastLookup.hits = 1
    /\ stats.cache_hits = 1

\* C22: research_batch returns a result for every query of its input list: the
\* empty list for a query whose research failed, and for every other query
\* the result its research returned, whatever happened to the other queries.
C22_BatchAnswersEveryQuery ==
    lastBatch.called =>
        \A i \in 1..2 :
            /\ lastBatch.texts[i] \in DOMAIN lastBatch.answer
            /\ lastBatch.answer[lastBatch.texts[i]] =
                  IF lastBatch.raised[i] THEN "<<>>" ELSE lastBatch.returns[i]

(***************************************************************************)
(* Claims about containers (checked under SpecDocker)                      *)
(***************************************************************************)
\* C23: create_container rejects with an invalid-argument error (ValueError),
\* before any call to the container runtime, every name that contains a
\* character outside [A-Za-z0-9_-] and every name that is already tracked.
C23_BadNamesRejectedBeforeRuntime ==
    lastCreate.called =>
        ((\/ \E i \in 1..Len(lastCreate.name) : lastCreate.name[i] \notin AsciiNameChars
          \/ lastCreate.was_tracked)
         => /\ lastCreate.how = "ValueError"
            /\ ~lastCreate.called_runtime)

\* C24: execute_tests provisions the environment named after the project
\* directory's base name or reuses the existing one: with a usable project
\* name and a working runtime the call succeeds and runs the test command in
\* that environment, also when the environment already exists.
C24_ExecuteTestsReusesEnvironment ==
    (lastTests.called /\ lastTests.runtime_ok /\ NameIsValid_Ascii(lastTests.project))
    => /\ lastTests.how = "ran"
       /\ lastTests.ran_in = EnvironmentName(lastTests.project)

\* C25: cleanup_project(name) stops and removes every container that belongs
\* to project name, a failure on one container keeping none of the others
\* from being stopped and removed.
C25_CleanupRemovesProjectContainers ==
    lastCleanup.called =>
        \A c \in lastCleanup.before :
            (c = EnvironmentName(lastCleanup.project) /\ c \notin lastCleanup.failing)
            => c \notin lastCleanup.after

(***************************************************************************)
(* Claims about specification documents (checked under SpecSpecs)          *)
(***************************************************************************)
\* C26: after n saves of a document with max_versions = m exactly min(n, m)
\* backup files remain, the most recent ones by modification time.
C26_BackupsKeptAreMinOfSavesAndMax ==
    /\ Cardinality(backups) = Min(saves, max_versions)
    /\ \A f \in backups : f.mtime > saves - max_versions

\* C27: the history of a document is append-only: every step of createSpec,
\* updateSpec and save leaves the change records recorded earlier, unmodified
\* and in order, as a prefix of the history, whatever fields the update names.
C27_HistoryAppendOnly == [][IsPrefix(spec_doc.history, spec_doc.history')]_vars

(***************************************************************************)
(* Claims about the component life cycle (checked under SpecStartup)       *)
(***************************************************************************)
\* C28: when the initialization of a component fails during start(), every
\* component constructed by then has been cleaned up when the failure reaches
\* the caller, also when the cleanup of another component fails.
C28_FailedStartCleansConstructed ==
    (lastStart.called /\ lastStart.failed)
    => \A c \in lastStart.constructed :
          c \notin lastStart.raising => components[c] = "cleaned"

(***************************************************************************)
(* Claims about path validation (checked under SpecPaths)                  *)
(***************************************************************************)
\* C29: validate_path(path, base) raises a security violation when the path
\* holds a parent-directory segment, when it is absolute and no base is
\* given, and when a base is given and the resolved path is not beneath it;
\* in every other case it returns the resolved path.
C29_ValidatePathRejectsExactlyUnsafe ==
    lastValidate.called =>
        LET path == lastValidate.path
            base == lastValidate.base
            unsafe == \/ HasTraversal(path.segs)
                      \/ path.absolute /\ ~base.given
                      \/ base.given /\ ~Beneath(Resolve(path), Resolve(base))
        IN  IF unsafe THEN lastValidate.raised
            ELSE ~lastValidate.raised /\ lastValidate.returned = Resolve(path)

(***************************************************************************)
(* Claims about the configuration (checked under SpecConfig)               *)
(***************************************************************************)
\* C30: fromDict(toDict(C)) reproduces every field of a configuration C: the
\* provider list, the Docker, research, journal and state settings and the
\* scalar server settings.
C30_ConfigRoundTrip ==
    lastConfig.called => lastConfig.restored = lastConfig.original

(***************************************************************************)
(* Further claims about the server (checked under Spec)                    *)
(***************************************************************************)
\* method.startswith("notifications/"), over the methods tried
IsNotification(method) == method = "notifications/initialized"

\* C31: a request whose method is a notification gets no response:
\* handle_request returns nothing or an empty object, not an error envelope.
C31_NotificationGetsNoResponse ==
    (lastRequest.kind = "dict" /\ IsNotification(lastRequest.method)) =>
        /\ raised = NoException
        /\ ~response.hasError
        /\ ~response.hasContent
        /\ response.shape \in {"<none>", "empty"}

(***************************************************************************)
(* Further claims about concurrent calls (checked under SpecConversation)  *)
(***************************************************************************)
\* The tasks whose admitted request to provider p is awaiting its reply.
InFlight(p) == {c \in Tasks : calls[c].pc = "awaiting" /\ calls[c].gen.selected = p}

C33_AttemptOutcomeRecorded ==
    /\ (genResult.status = "response" /\ sent # <<>>) =>
          /\ health_status[Last(sent)].is_healthy
          /\ health_status[Last(sent)].failure_count = 0
    /\ (genResult.status = "raised" /\ replies # <<>> /\ Len(replies) = Len(sent)) =>
          /\ health_status[Last(sent)].failure_count > 0
          /\ health_status[Last(sent)].last_failure = now

C35_FailedCreateLeavesNoName ==
    (lastCreate.called /\ lastCreate.how = "RuntimeError" /\ ~lastCreate.was_tracked) =>
        lastCreate.name \notin tracked

\* C36: an empty result that a research call got because the rate limiter
\* turned a capability call away, or because a capability raised, is not
\* stored in the cache.
C36_DegradedEmptyResultNotCached ==
    (lastLookup.called /\ lastLookup.degraded /\ lastLookup.stored.data = "<<>>") =>
        lastLookup.stored = NoCacheEntry

\* C37: the journal file created on a rotation never empties or replaces a
\* journal file that already holds entries, two rotations within one second
\* included.
C37_RotationKeepsWrittenFiles ==
    (lastGet.called /\ lastGet.rotated) => lastGet.overwrote = 0

\* C38: once stop() of the server has completed, the journal worker has been
\* shut down and its queue drained: every entry logged while the server ran,
\* and whose write can succeed, is in the journal file.
C38_StopDrainsJournal ==
    serverState = "stopped" =>
        /\ worker.at = "exited"
        /\ jqueue = <<>>
        /\ \A e \in (1..log_count) \ unwritable : TimesIn(written, e) = 1

\* C39: a command that sanitize_command returns holds none of the blacklisted
\* terms and none of the characters it strips: taking the dangerous
\* characters out never leaves a blacklisted term behind.
C39_SanitizedCommandIsClean ==
    (lastSanitize.called /\ ~lastSanitize.raised) =>
        /\ ~HasBlacklisted(lastSanitize.returned)
        /\ \A i \in 1..Len(lastSanitize.returned) :
              lastSanitize.returned[i] \notin DangerousChars

\* C40: a specification loaded from its stored file equals the document last
\* saved: parent id, children ids, created and updated timestamps and
\* validation results survive a save followed by a load from storage.
C40_LoadedEqualsSaved ==
    (lastLoad.called /\ ~lastLoad.cached) => lastLoad.loaded = lastLoad.saved

====
